---------------------------- MODULE Spec2Model ----------------------------
(***************************************************************************)
(* Model of the PGM source (sender) transport, pgm/source.c.               *)
(*                                                                         *)
(* Three threads act on one transport:                                     *)
(*   - the application producer (pgm_transport_send, pgm_transport_sendv,  *)
(*     pgm_transport_send_skbv and the single packet helpers),             *)
(*   - the receive thread (on_nak),                                        *)
(*   - the timer/repair thread (on_nak_notify, send_rdata).                *)
(* The configuration setters are modelled in a specification of their own  *)
(* (SpecCfg).                                                              *)
(*                                                                         *)
(* Sizes are scaled down (a PGM header is one byte long, a TSDU at most    *)
(* three), sequence numbers keep their 32 bit width.                        *)
(***************************************************************************)
EXTENDS Integers, Sequences, FiniteSets, TLC

(***************************************************************************)
(* Bounds of the model.                                                    *)
(***************************************************************************)
\* application requests issued by the producer
MaxCalls == 2
\* NAK packets received by the receive thread
MaxNaks == 1
\* times pgm_sendto answers -1/EAGAIN to the producer
MaxEagain == 1
\* times pgm_sendto fails or writes short for the producer
MaxFail == 1
\* ticks of the clock pgm_time_update_now reads
MaxNow == 1
MaxSpmrs == 1
MaxSpms == 1
MaxNnaks == 1
\* NAK packets received while the repair cycle is watched
MaxRepNaks == 2

(***************************************************************************)
(* Sizes of the transport.                                                 *)
(***************************************************************************)
\* transport->max_tsdu
MaxTsdu == 3
\* transport->max_tsdu_fragment, pgm_transport_max_tsdu (transport, TRUE)
MaxTsduFragment == 2
\* transport->txw_sqns
TxwSqns == 3
\* transport->iphdr_len
IphdrLen == 1
\* sizeof(struct pgm_header) + sizeof(struct pgm_data)
PgmHeaderLen == 1
\* sizeof(pgm_opt_length) + sizeof(pgm_opt_header) + sizeof(pgm_opt_fragment)
OptFragmentLen == 1

\* pgm_transport_pkt_offset (can_fragment)
pgm_transport_pkt_offset(can_fragment) ==
    IF can_fragment THEN PgmHeaderLen + OptFragmentLen ELSE PgmHeaderLen

Min(a, b) == IF a < b THEN a ELSE b

(***************************************************************************)
(* guint32 values.  A guint32 is held as the integer with the same 32 bit  *)
(* pattern in two's complement: 0 .. 2^31 - 1 stand for themselves and     *)
(* 2^31 .. 2^32 - 1 are held as -2^31 .. -1, so UINT32_MAX is -1.          *)
(***************************************************************************)
INT32_MAX == 2147483647
INT32_MIN == (0 - 2147483647) - 1
UINT32_MAX == 0 - 1

\* a + b modulo 2^32, for 0 <= b
Add32(a, b) ==
    IF a > INT32_MAX - b THEN INT32_MIN + ((a - INT32_MAX) + (b - 1)) ELSE a + b

\* a - b modulo 2^32
Sub32(a, b) ==
    IF b >= 0
    THEN IF a < INT32_MIN + b THEN INT32_MAX - ((INT32_MIN - a) + (b - 1)) ELSE a - b
    ELSE IF a >= 0 /\ a > INT32_MAX + b THEN (a + INT32_MIN) + (INT32_MIN - b) ELSE a - b

\* a < b as guint32
Less32(a, b) == IF (a < 0) = (b < 0) THEN a < b ELSE b < 0

\* a & b and a | b
RECURSIVE BitAnd(_, _)
BitAnd(a, b) ==
    IF a = 0 \/ b = 0 THEN 0
    ELSE IF a = UINT32_MAX THEN b
    ELSE IF b = UINT32_MAX THEN a
    ELSE 2 * BitAnd(a \div 2, b \div 2) + (IF a % 2 = 1 /\ b % 2 = 1 THEN 1 ELSE 0)

RECURSIVE BitOr(_, _)
BitOr(a, b) ==
    IF a = 0 THEN b
    ELSE IF b = 0 THEN a
    ELSE IF a = UINT32_MAX \/ b = UINT32_MAX THEN UINT32_MAX
    ELSE 2 * BitOr(a \div 2, b \div 2) + (IF a % 2 = 1 \/ b % 2 = 1 THEN 1 ELSE 0)

\* 0xffffffff << tg_sqn_shift
TgSqnMask(shift) == 0 - (2^shift)
\* ~tg_sqn_mask
TgSqnUnmask(shift) == 2^shift - 1

\* errno values and return codes
EAGAIN == "EAGAIN"
ECONNRESET == "ECONNRESET"
EIO == "EIO"
ENone == "none"
EINVAL == "EINVAL"
EMSGSIZE == "EMSGSIZE"

\* send flags
FlagSets == { {}, {"DONTWAIT"}, {"DONTWAIT", "WAITALL"} }
BothFlags(flags) == "DONTWAIT" \in flags /\ "WAITALL" \in flags

(***************************************************************************)
(* The transmit window (pgm/txwi.h).  skbs holds the packets trail..lead   *)
(* in order, rq is the retransmit queue, head first.                       *)
(***************************************************************************)
\* STATE(skb) when no packet is pending
NoSkb == << >>

pgm_txw_lead(x) == x.lead
pgm_txw_trail(x) == x.trail
pgm_txw_next_lead(x) == Add32(x.lead, 1)

\* position of sqn in the window, 0 when it is not held
TxwIndex(x, sqn) ==
    LET d == Sub32(sqn, x.trail) IN
    IF 0 <= d /\ d < Len(x.skbs) THEN d + 1 ELSE 0

TxwHas(x, sqn) == TxwIndex(x, sqn) # 0

pgm_txw_peek(x, sqn) == x.skbs[TxwIndex(x, sqn)]

\* the key a retransmit request is filed under: the packet for a selective
\* request, the first packet of the transmission group for a parity request
RqKey(sqn, is_parity, shift) ==
    IF is_parity THEN BitAnd(sqn, TgSqnMask(shift)) ELSE sqn

\* pgm_txw_add: append at the lead, evicting the trail when the window is full;
\* requests for the evicted packet leave the retransmit queue with it
pgm_txw_add(x, skb) ==
    LET full == Len(x.skbs) >= TxwSqns
        kept == IF full THEN Tail(x.skbs) ELSE x.skbs
        trail2 == IF full THEN Add32(x.trail, 1) ELSE x.trail
        rq2 == IF full THEN SelectSeq(x.rq, LAMBDA e : e.key # x.trail) ELSE x.rq
    IN [x EXCEPT !.lead = Add32(x.lead, 1),
                 !.trail = trail2,
                 !.skbs = Append(kept, skb),
                 !.rq = rq2]

\* pgm_txw_retransmit_push: number of entries added (0 or 1)
RetransmitPushCount(x, sqn, is_parity, shift) ==
    LET key == RqKey(sqn, is_parity, shift) IN
    IF ~TxwHas(x, key) THEN 0
    ELSE IF \E i \in 1..Len(x.rq) : x.rq[i].key = key /\ x.rq[i].is_parity = is_parity THEN 0
    ELSE 1

pgm_txw_retransmit_push(x, sqn, is_parity, shift) ==
    IF RetransmitPushCount(x, sqn, is_parity, shift) = 0 THEN x
    ELSE [x EXCEPT !.rq = Append(@, [key |-> RqKey(sqn, is_parity, shift),
                                      sqn |-> sqn,
                                      is_parity |-> is_parity,
                                      rs_h |-> IF is_parity
                                               THEN BitAnd(sqn, TgSqnUnmask(shift))
                                               ELSE 0])]

pgm_txw_retransmit_remove_head(x) == [x EXCEPT !.rq = Tail(@)]


(***************************************************************************)
(* State.                                                                  *)
(***************************************************************************)
VARIABLES
    cfg,            \* parity configuration of the transport, fixed at bind
    transport,      \* is_open, is_apdu_eagain, cumulative_stats, heartbeat state
    st,             \* transport->pkt_dontwait_state, the STATE(x) of the source
    txw,            \* the transmit window and its retransmit queue
    txw_lock,       \* TRUE while a writer holds transport->txw_lock
    rdata_notify,   \* events pending in transport->rdata_notify
    timer_notify,   \* events pending in transport->timer_notify
    prod,           \* the producer thread's position and locals
    app,            \* the application: its request, the last return value, errno
    recv,           \* the receive thread's position inside on_nak
    wire,           \* history: packets handed to pgm_sendto on the regular socket
    ra_wire,        \* history: packets handed to pgm_sendto on the router alert socket
    odata_log,      \* history: packets appended to the transmit window, in order
    crashed,        \* the process died (failed assertion, undefined behaviour)
    now,            \* pgm_time_update_now()
    timer,          \* the timer thread's position inside send_spm_unlocked
    peer            \* the pgm_peer_t handed to on_spmr: spmr_expiry

vars == << cfg, transport, st, txw, txw_lock, rdata_notify, timer_notify,
           prod, app, recv, wire, ra_wire, odata_log, crashed, now, timer, peer >>

\* 0 - EMSGSIZE and 0 - EINVAL of errno.h, as g_return_val_if_fail returns them
RetEMSGSIZE == 0 - 90
RetEINVAL == 0 - 22

RECURSIVE SumSeq(_)
SumSeq(s) == IF s = << >> THEN 0 ELSE Head(s) + SumSeq(Tail(s))

\* the values every thread works on, as one record
World ==
    [t |-> transport, st |-> st, x |-> txw, lock |-> txw_lock,
     rn |-> rdata_notify, tn |-> timer_notify, p |-> prod, a |-> app,
     r |-> recv, wire |-> wire, ra |-> ra_wire, olog |-> odata_log, crashed |-> crashed,
     tm |-> timer, peer |-> peer]

Commit(w) ==
    /\ transport' = w.t
    /\ st' = w.st
    /\ txw' = w.x
    /\ txw_lock' = w.lock
    /\ rdata_notify' = w.rn
    /\ timer_notify' = w.tn
    /\ prod' = w.p
    /\ app' = w.a
    /\ recv' = w.r
    /\ wire' = w.wire
    /\ ra_wire' = w.ra
    /\ odata_log' = w.olog
    /\ crashed' = w.crashed
    /\ timer' = w.tm
    /\ peer' = w.peer

IdleProd ==
    [pc |-> "idle", fn |-> "none", take_lock |-> FALSE, len |-> 0, elem |-> 0,
     flags |-> {}, one_apdu |-> FALSE, outer |-> FALSE,
     bytes_sent |-> 0, packets_sent |-> 0, data_bytes_sent |-> 0, v_dbs |-> 0]

Crash(w) == [w EXCEPT !.crashed = TRUE]


(***************************************************************************)
(* Helpers of the send path.                                               *)
(***************************************************************************)
\* transport->spm_heartbeat_interval[i], a zero based C array
HeartbeatInterval(i) == cfg.spm_heartbeat_interval[i + 1]

\* pgm_time_after (a, b)
pgm_time_after(a, b) == a > b

\* g_static_mutex_lock (&transport->mutex) would be granted
MutexIgnored(w) == TRUE

MutexFree(w) == w.t.mutex = "free"

\* a reset that forgets to read the clock
ResetHeartbeatWithoutClock(w) ==
    LET next == HeartbeatInterval(1)
        prodTimer == pgm_time_after(w.t.next_poll, next)
    IN [w EXCEPT !.t.spm_heartbeat_state = 2,
                 !.t.next_heartbeat_spm = next,
                 !.t.next_poll = IF prodTimer THEN next ELSE @,
                 !.tn = IF prodTimer THEN @ + 1 ELSE @,
                 !.t.hb_resets = @ + 1,
                 !.t.hb_locked = IF w.lock THEN @ + 1 ELSE @]

\* a reset that never prods the timer thread
ResetHeartbeatWithoutProd(w) ==
    [w EXCEPT !.t.spm_heartbeat_state = 2,
              !.t.next_heartbeat_spm = now + HeartbeatInterval(1),
              !.t.hb_resets = @ + 1,
              !.t.hb_locked = IF w.lock THEN @ + 1 ELSE @]

\* pgm_reset_heartbeat_spm with transport->mutex granted: restart the
\* heartbeat schedule, prod the timer thread
ResetHeartbeatLocked(w) ==
    LET next == now + HeartbeatInterval(1)
        prodTimer == pgm_time_after(w.t.next_poll, next)
    IN [w EXCEPT !.t.spm_heartbeat_state = 2,
                 !.t.next_heartbeat_spm = next,
                 !.t.next_poll = IF prodTimer THEN next ELSE @,
                 !.tn = IF prodTimer THEN @ + 1 ELSE @,
                 !.t.hb_resets = @ + 1,
                 !.t.hb_locked = IF w.lock THEN @ + 1 ELSE @,
                 !.t.hb_wait = FALSE]

\* pgm_reset_heartbeat_spm: the caller waits in g_static_mutex_lock while
\* another thread holds transport->mutex
pgm_reset_heartbeat_spm(w) ==
    IF MutexFree(w) THEN ResetHeartbeatLocked(w) ELSE [w EXCEPT !.t.hb_wait = TRUE]

\* pgm_schedule_proactive_nak; nok: pgm_notify_send succeeded
pgm_schedule_proactive_nak(w, nak_tg_sqn, nok) ==
    [w EXCEPT !.x = pgm_txw_retransmit_push(w.x, BitOr(nak_tg_sqn, cfg.rs_proactive_h),
                                            TRUE, cfg.tg_sqn_shift),
              !.rn = IF nok THEN @ + 1 ELSE @,
              !.t.notify_failed = IF nok THEN @ ELSE @ + 1]

\* "check for end of transmission group" after an ODATA with sequence odata_sqn
EndOfGroup(odata_sqn) ==
    BitAnd(Add32(odata_sqn, 1), TgSqnUnmask(cfg.tg_sqn_shift)) = 0

CheckEndOfGroup(w, odata_sqn, nok) ==
    IF cfg.use_proactive_parity /\ EndOfGroup(odata_sqn)
    THEN pgm_schedule_proactive_nak(w, BitAnd(odata_sqn, TgSqnMask(cfg.tg_sqn_shift)), nok)
    ELSE w

\* the application gets the value back; it repeats the call after -1/EAGAIN
ToApp(w, v) ==
    [w EXCEPT !.p = IdleProd,
              !.a.ret = v,
              !.a.phase = IF v = -1 /\ w.a.errno = EAGAIN THEN "again" ELSE "done"]

\* pgm_transport_sendv, is_one_apdu false: the loop body after
\* pgm_transport_send returned sent for vector[STATE(data_pkt_offset)]
SendvAfterSend(w, sent) ==
    LET i == w.st.data_pkt_offset
        iov_len == w.a.req.vec[i + 1]
    IN IF sent < 0 /\ w.a.errno = EAGAIN
       THEN ToApp([w EXCEPT !.t.is_apdu_eagain = TRUE], -1)
       ELSE LET dbs == w.p.v_dbs + (IF sent = iov_len THEN iov_len ELSE 0)
                w2 == [w EXCEPT !.p.v_dbs = dbs, !.st.data_pkt_offset = i + 1]
            IN IF i + 1 < Len(w.a.req.vec)
               THEN [w2 EXCEPT !.p.pc = "vcall", !.p.fn = "none", !.p.take_lock = FALSE]
               ELSE ToApp([w2 EXCEPT !.t.is_apdu_eagain = FALSE], dbs)

\* return of the innermost send function: to pgm_transport_sendv's loop or to
\* the application; e is the errno the function sets, ENone when it sets none
Ret(w, v, e) ==
    LET w1 == [w EXCEPT !.a.errno = IF e = ENone THEN @ ELSE e] IN
    IF w.p.outer THEN SendvAfterSend(w1, v) ELSE ToApp(w1, v)

\* a function is entered at its first packet / at its retry label
AtBuild(w, fn, len, flags, one) ==
    [w EXCEPT !.p.pc = "build", !.p.fn = fn, !.p.take_lock = TRUE, !.p.len = len,
              !.p.flags = flags, !.p.one_apdu = one,
              !.p.bytes_sent = 0, !.p.packets_sent = 0, !.p.data_bytes_sent = 0]

AtRetry(w, fn, len, flags, one) ==
    [w EXCEPT !.p.pc = "sendto", !.p.fn = fn, !.p.take_lock = FALSE, !.p.len = len,
              !.p.flags = flags, !.p.one_apdu = one,
              !.p.bytes_sent = 0, !.p.packets_sent = 0, !.p.data_bytes_sent = 0]

\* pgm_transport_send_one_copy up to its first packet
EnterSendOneCopy(w, tsdu_length, flags) ==
    IF tsdu_length # 0 /\ ~(tsdu_length <= MaxTsdu) THEN Ret(w, RetEMSGSIZE, ENone)
    ELSE IF w.t.is_apdu_eagain THEN AtRetry(w, "one_copy", tsdu_length, flags, FALSE)
    ELSE AtBuild(w, "one_copy", tsdu_length, flags, FALSE)

\* pgm_transport_send_one up to its first packet; skb_len is skb->len
EnterSendOne(w, skb_len, flags) ==
    IF ~(skb_len <= MaxTsdu) THEN Ret(w, RetEMSGSIZE, ENone)
    ELSE IF w.t.is_apdu_eagain THEN AtRetry(w, "one", skb_len, flags, FALSE)
    ELSE AtBuild(w, "one", skb_len, flags, FALSE)

\* pgm_transport_send_onev up to its first packet (count > 0)
EnterSendOneV(w, vec, flags) ==
    IF w.t.is_apdu_eagain THEN AtRetry(w, "onev", 0, flags, FALSE)
    ELSE LET w1 == [w EXCEPT !.st.tsdu_length = SumSeq(vec)] IN
         IF ~(SumSeq(vec) <= MaxTsdu) THEN Ret(w1, RetEMSGSIZE, ENone)
         ELSE AtBuild(w1, "onev", 0, flags, FALSE)

\* "if non-blocking calculate total wire size and check rate limit": the
\* send functions call pgm_rate_check when both flags are set; the calls are
\* counted for each call of the application
RateCheck(w, flags) ==
    IF BothFlags(flags) THEN [w EXCEPT !.a.rate_checks = @ + 1] ELSE w

\* pgm_transport_send up to its first packet; rok: pgm_rate_check returned 0
EnterSend(w, apdu_length, flags, rok) ==
    IF ~w.t.is_open THEN Ret(w, -1, ECONNRESET)
    ELSE IF apdu_length < MaxTsdu THEN EnterSendOneCopy(w, apdu_length, flags)
    ELSE IF ~(apdu_length <= TxwSqns * MaxTsduFragment) THEN Ret(w, RetEMSGSIZE, ENone)
    ELSE IF w.t.is_apdu_eagain THEN AtRetry(w, "send", apdu_length, flags, TRUE)
    ELSE IF BothFlags(flags) /\ ~rok
         THEN Ret(RateCheck([w EXCEPT !.st.is_rate_limited = FALSE], flags), -1, EAGAIN)
    ELSE AtBuild(RateCheck([w EXCEPT !.st.is_rate_limited = BothFlags(flags),
                                     !.st.data_bytes_offset = 0], flags),
                 "send", apdu_length, flags, TRUE)

\* pgm_transport_sendv up to its first packet
EnterSendv(w, vec, flags, is_one_apdu, rok) ==
    IF ~w.t.is_open THEN Ret(w, -1, ECONNRESET)
    ELSE IF Len(vec) = 0 THEN EnterSendOneCopy(w, 0, flags)
    ELSE IF w.t.is_apdu_eagain
         THEN IF is_one_apdu
              THEN IF w.st.apdu_length < MaxTsdu
                   THEN EnterSendOneV(w, vec, flags)
                   ELSE AtRetry(w, "sendv", 0, flags, TRUE)
              ELSE [w EXCEPT !.p.pc = "vcall", !.p.outer = TRUE, !.p.v_dbs = 0,
                             !.p.flags = flags]
    ELSE LET w1 == [w EXCEPT !.st.apdu_length = SumSeq(vec)] IN
         IF is_one_apdu /\ SumSeq(vec) < MaxTsdu THEN EnterSendOneV(w1, vec, flags)
         ELSE IF ~(SumSeq(vec) <= TxwSqns * MaxTsduFragment)
              THEN Ret(w1, RetEMSGSIZE, ENone)
         ELSE IF BothFlags(flags) /\ ~rok
              THEN Ret(RateCheck([w1 EXCEPT !.st.is_rate_limited = FALSE], flags),
                       -1, EAGAIN)
         ELSE LET w2 == RateCheck([w1 EXCEPT !.st.is_rate_limited = BothFlags(flags)],
                                  flags) IN
              IF ~is_one_apdu
              THEN [w2 EXCEPT !.st.data_pkt_offset = 0,
                              !.p.pc = "vcall", !.p.outer = TRUE, !.p.v_dbs = 0,
                              !.p.flags = flags]
              ELSE AtBuild([w2 EXCEPT !.st.data_bytes_offset = 0,
                                      !.st.vector_index = 0,
                                      !.st.vector_offset = 0],
                           "sendv", 0, flags, TRUE)

\* pgm_transport_send_skbv without the test of is_open
EnterSendSkbvUnchecked(w, vec, flags, is_one_apdu, rok) ==
    IF Len(vec) = 0 THEN EnterSendOneCopy(w, 0, flags)
    ELSE IF Len(vec) = 1 THEN EnterSendOne(w, vec[1], flags)
    ELSE IF w.t.is_apdu_eagain THEN AtRetry(w, "skbv", 0, flags, is_one_apdu)
    ELSE IF BothFlags(flags) /\ ~rok
         THEN Ret(RateCheck([w EXCEPT !.st.is_rate_limited = FALSE], flags), -1, EAGAIN)
    ELSE AtBuild(RateCheck([w EXCEPT !.st.is_rate_limited = BothFlags(flags)], flags),
                 "skbv", 0, flags, is_one_apdu)

\* pgm_transport_send_skbv up to its first packet; vec holds each skb's len
EnterSendSkbv(w, vec, flags, is_one_apdu, rok) ==
    IF ~w.t.is_open THEN Ret(w, -1, ECONNRESET)
    ELSE IF Len(vec) = 0 THEN EnterSendOneCopy(w, 0, flags)
    ELSE IF Len(vec) = 1 THEN EnterSendOne(w, vec[1], flags)
    ELSE IF w.t.is_apdu_eagain THEN AtRetry(w, "skbv", 0, flags, is_one_apdu)
    ELSE IF BothFlags(flags) /\ ~rok
         THEN Ret(RateCheck([w EXCEPT !.st.is_rate_limited = FALSE], flags), -1, EAGAIN)
    ELSE AtBuild(RateCheck([w EXCEPT !.st.is_rate_limited = BothFlags(flags)], flags),
                 "skbv", 0, flags, is_one_apdu)

\* the entry point the application calls for request req
EnterRequest(w, req, rok) ==
    CASE req.shape = "send" -> EnterSend(w, req.vec[1], req.flags, rok)
      [] req.shape = "sendv" -> EnterSendv(w, req.vec, req.flags, req.one_apdu, rok)
      [] req.shape = "skbv" -> EnterSendSkbv(w, req.vec, req.flags, req.one_apdu, rok)


(***************************************************************************)
(* Building one ODATA packet and adding it to the transmit window.         *)
(***************************************************************************)
NoFragment == [opt_sqn |-> 0, opt_frag_off |-> 0, opt_frag_len |-> 0]

\* payload bytes are named by the vector element and the offset they come from
Bytes(elem, from, n) == [k \in 1..n |-> << elem, from + k >>]

(***************************************************************************)
(* The Internet checksum (pgm/checksum.c), over 16 bit words.  One byte of *)
(* the scaled down packet stands for one word, so no block starts at an    *)
(* odd offset.                                                             *)
(***************************************************************************)
\* transport->tsi.sport and transport->dport
TsiSport == 7
Dport == 9

\* PGM_ODATA and PGM_RDATA
PgmOdata == 4
PgmRdata == 5

\* the low and the high half of a guint32
Lo16(v) == v % 65536
Hi16(v) == (v \div 65536) % 65536

\* the word a payload byte stands for
PayloadWord(b) ==
    IF Len(b) = 3 THEN 4096 + 16 * Lo16(b[2]) + b[3] ELSE 256 * b[1] + b[2]

PayloadWords(payload) == [i \in 1..Len(payload) |-> PayloadWord(payload[i])]

\* pgm_csum_partial: the unfolded sum of the words
pgm_csum_partial(words) == SumSeq(words)

\* pgm_csum_block_add: the sum of two blocks, the second at an even offset
pgm_csum_block_add(csum, csum2, offset) == csum + csum2

\* pgm_csum_fold: end around carry, then the complement
pgm_csum_fold(csum) == 65535 - (IF csum = 0 THEN 0 ELSE ((csum - 1) % 65535) + 1)

\* the words of the PGM header, the data header and the options of a packet
HeaderWords(pkt) ==
    << pkt.sport, pkt.dport,
       (IF pkt.type = "RDATA" THEN PgmRdata ELSE PgmOdata) * 256
           + (IF pkt.opt_present THEN 1 ELSE 0) + (IF pkt.parity THEN 128 ELSE 0)
           + (IF pkt.var_pktlen THEN 64 ELSE 0),
       pkt.checksum, pkt.tsdu_length,
       Hi16(pkt.sqn), Lo16(pkt.sqn), Hi16(pkt.trail), Lo16(pkt.trail) >>
    \o (IF pkt.opt_present
        THEN << Hi16(pkt.frag.opt_sqn), Lo16(pkt.frag.opt_sqn),
                pkt.frag.opt_frag_off, pkt.frag.opt_frag_len >>
        ELSE << >>)

\* the checksum of a packet computed over all of it, the field itself zero
ChecksumFromScratch(pkt) ==
    pgm_csum_fold(pgm_csum_partial(HeaderWords([pkt EXCEPT !.checksum = 0])
                                   \o PayloadWords(pkt.payload)))

\* pgm_header->pgm_checksum of a packet whose payload sums to unfolded_odata
HeaderChecksum(pkt, unfolded_odata) ==
    LET unfolded_header == pgm_csum_partial(HeaderWords([pkt EXCEPT !.checksum = 0]))
    IN pgm_csum_fold(pgm_csum_block_add(unfolded_header, unfolded_odata,
                                        pkt.len - pkt.tsdu_length))

\* data_sqn taken from the trail of the window instead of its next lead
StampSqnTrail(x) == pgm_txw_trail(x)

\* the sequence number an ODATA is stamped with: data_sqn
StampSqn(x) == pgm_txw_next_lead(x)

\* an ODATA as the send functions stamp it
Odata(x, tsdu_length, can_fragment, frag, payload) ==
    LET skb == [sqn |-> StampSqn(x),
                trail |-> pgm_txw_trail(x),
                type |-> "ODATA",
                sport |-> TsiSport,
                dport |-> Dport,
                opt_present |-> can_fragment,
                parity |-> FALSE,
                var_pktlen |-> FALSE,
                checksum |-> 0,
                tsdu_length |-> tsdu_length,
                frag |-> frag,
                len |-> pgm_transport_pkt_offset(can_fragment) + tsdu_length,
                payload |-> payload,
                cb |-> 0,
                zero_padded |-> FALSE]
    IN [skb EXCEPT !.checksum =
            HeaderChecksum(skb, pgm_csum_partial(PayloadWords(payload)))]

\* the OPT_FRAGMENT of a fragment
OptFragment(first_sqn, frag_off, apdu_length) ==
    [opt_sqn |-> first_sqn, opt_frag_off |-> frag_off, opt_frag_len |-> apdu_length]

\* a packet that is built and sent but never handed to the window
NotAddedToWindow(w, skb) ==
    [w EXCEPT !.st.skb = << skb.sqn >>,
              !.st.unfolded_odata = pgm_csum_partial(PayloadWords(skb.payload)),
              !.olog = Append(@, skb),
              !.p.pc = "sendto",
              !.p.take_lock = FALSE,
              !.lock = TRUE]

\* pgm_txw_add (transport->txw, STATE(skb)) with STATE(skb) = skb
AddToWindow(w, skb) ==
    [w EXCEPT !.x = pgm_txw_add(w.x, skb),
              !.st.skb = << skb.sqn >>,
              !.st.unfolded_odata = pgm_csum_partial(PayloadWords(skb.payload)),
              !.olog = Append(@, skb),
              !.p.pc = "sendto",
              !.p.take_lock = FALSE,
              !.lock = TRUE]

\* the scatter/gather copy of pgm_transport_sendv: tsdu_length bytes from
\* vector[vector_index] + vector_offset on
RECURSIVE CopyVector(_, _, _, _, _, _)
CopyVector(vec, vector_index, vector_offset, tsdu_length, dst_length, bytes) ==
    IF vector_index >= Len(vec)
    THEN [oob |-> TRUE, vector_index |-> vector_index, vector_offset |-> vector_offset,
          bytes |-> bytes]
    ELSE LET src_length == vec[vector_index + 1] - vector_offset
             copy_length == Min(tsdu_length - dst_length, src_length)
             bytes2 == bytes \o Bytes(vector_index + 1, vector_offset, copy_length)
             vi2 == IF copy_length = src_length THEN vector_index + 1 ELSE vector_index
             vo2 == IF copy_length = src_length THEN 0 ELSE vector_offset + copy_length
         IN IF dst_length + copy_length = tsdu_length
            THEN [oob |-> FALSE, vector_index |-> vi2, vector_offset |-> vo2,
                  bytes |-> bytes2]
            ELSE CopyVector(vec, vi2, vo2, tsdu_length, dst_length + copy_length, bytes2)

\* the element of the application's vector the running function sends
CurElem(w) == IF w.p.outer THEN w.st.data_pkt_offset + 1 ELSE 1

\* a fragment cut at max_tsdu, leaving no room for OPT_FRAGMENT
FragmentTsduNoOptionRoom(apdu_length, offset) ==
    IF apdu_length < offset THEN MaxTsdu ELSE Min(MaxTsdu, apdu_length - offset)

\* MIN (max_tsdu_fragment, apdu_length - STATE(data_bytes_offset)) in gsize
FragmentTsdu(apdu_length, offset) ==
    IF apdu_length < offset THEN MaxTsduFragment
    ELSE Min(MaxTsduFragment, apdu_length - offset)

BuildOneCopy(w) ==
    AddToWindow(w, Odata(w.x, w.p.len, FALSE, NoFragment, Bytes(CurElem(w), 0, w.p.len)))

BuildOneV(w) ==
    LET vec == w.a.req.vec
        payload == CopyVector(vec, 0, 0, SumSeq(vec), 0, << >>).bytes
    IN AddToWindow(w, Odata(w.x, w.st.tsdu_length, FALSE, NoFragment,
                            IF w.st.tsdu_length = 0 THEN << >> ELSE payload))

\* pgm_transport_send_one: the header is pushed in front of the caller's skb
BuildOne(w) ==
    LET skb == Odata(w.x, w.p.len, FALSE, NoFragment, Bytes(1, 0, w.p.len)) IN
    AddToWindow([w EXCEPT !.a.req.vec[1] = skb.len], skb)

\* one turn of the fragment loop of pgm_transport_send
BuildSend(w) ==
    LET first_sqn == IF w.p.take_lock THEN pgm_txw_next_lead(w.x) ELSE w.st.first_sqn
        tsdu_length == FragmentTsdu(w.p.len, w.st.data_bytes_offset)
        skb == Odata(w.x, tsdu_length, TRUE,
                     OptFragment(first_sqn, w.st.data_bytes_offset, w.p.len),
                     Bytes(CurElem(w), w.st.data_bytes_offset, tsdu_length))
    IN AddToWindow([w EXCEPT !.st.first_sqn = first_sqn,
                             !.st.tsdu_length = tsdu_length], skb)

\* a gather copy that forgets how far into the element it came
BuildSendvOffsetLost(w) ==
    LET first_sqn == IF w.p.take_lock THEN pgm_txw_next_lead(w.x) ELSE w.st.first_sqn
        tsdu_length == FragmentTsdu(w.st.apdu_length, w.st.data_bytes_offset)
        copy == CopyVector(w.a.req.vec, w.st.vector_index, w.st.vector_offset,
                           tsdu_length, 0, << >>)
        skb == Odata(w.x, tsdu_length, TRUE,
                     OptFragment(first_sqn, w.st.data_bytes_offset, w.st.apdu_length),
                     copy.bytes)
    IN IF copy.oob THEN Crash(w)
       ELSE AddToWindow([w EXCEPT !.st.first_sqn = first_sqn,
                                  !.st.tsdu_length = tsdu_length,
                                  !.st.vector_index = copy.vector_index,
                                  !.st.vector_offset = 0], skb)

\* one turn of the fragment loop of pgm_transport_sendv, is_one_apdu true
BuildSendv(w) ==
    LET first_sqn == IF w.p.take_lock THEN pgm_txw_next_lead(w.x) ELSE w.st.first_sqn
        tsdu_length == FragmentTsdu(w.st.apdu_length, w.st.data_bytes_offset)
        copy == CopyVector(w.a.req.vec, w.st.vector_index, w.st.vector_offset,
                           tsdu_length, 0, << >>)
        skb == Odata(w.x, tsdu_length, TRUE,
                     OptFragment(first_sqn, w.st.data_bytes_offset, w.st.apdu_length),
                     copy.bytes)
    IN IF copy.oob THEN Crash(w)
       ELSE AddToWindow([w EXCEPT !.st.first_sqn = first_sqn,
                                  !.st.tsdu_length = tsdu_length,
                                  !.st.vector_index = copy.vector_index,
                                  !.st.vector_offset = copy.vector_offset], skb)

\* the first vector element longer than max_tsdu_fragment, 0 when there is none
FirstTooLong(vec) ==
    IF \E i \in 1..Len(vec) : ~(vec[i] <= MaxTsduFragment)
    THEN CHOOSE i \in 1..Len(vec) :
            /\ ~(vec[i] <= MaxTsduFragment)
            /\ \A j \in 1..(i - 1) : vec[j] <= MaxTsduFragment
    ELSE 0

\* one turn of the loop of pgm_transport_send_skbv; the first turn follows the
\* writer lock and the is_one_apdu length loop
BuildSkbv(w) ==
    LET vec == w.a.req.vec
        first == w.p.take_lock
        bad == IF first /\ w.p.one_apdu THEN FirstTooLong(vec) ELSE 0
        w1 == IF first /\ w.p.one_apdu
              THEN [w EXCEPT !.st.apdu_length =
                                 IF bad = 0 THEN SumSeq(vec)
                                 ELSE SumSeq(SubSeq(vec, 1, bad - 1)),
                             !.st.first_sqn = pgm_txw_next_lead(w.x)]
              ELSE w
        vi == IF first THEN 0 ELSE w.st.vector_index
        tsdu_length == vec[vi + 1]
        skb == Odata(w.x, tsdu_length, w.p.one_apdu,
                     IF w.p.one_apdu
                     THEN OptFragment(w1.st.first_sqn, w1.st.data_bytes_offset,
                                      w1.st.apdu_length)
                     ELSE NoFragment,
                     Bytes(vi + 1, 0, tsdu_length))
    IN IF bad # 0 THEN Ret([w1 EXCEPT !.lock = TRUE], RetEMSGSIZE, ENone)
       ELSE AddToWindow([w1 EXCEPT !.st.vector_index = vi,
                                   !.st.tsdu_length = tsdu_length,
                                   !.a.req.vec[vi + 1] = skb.len], skb)

BuildPacket(w) ==
    CASE w.p.fn = "one_copy" -> BuildOneCopy(w)
      [] w.p.fn = "onev" -> BuildOneV(w)
      [] w.p.fn = "one" -> BuildOne(w)
      [] w.p.fn = "send" -> BuildSend(w)
      [] w.p.fn = "sendv" -> BuildSendv(w)
      [] w.p.fn = "skbv" -> BuildSkbv(w)


(***************************************************************************)
(* pgm_sendto of STATE(skb) and what follows it.                           *)
(***************************************************************************)
\* the flags the send functions pass on to pgm_sendto
SendtoFlags(flags) ==
    IF BothFlags(flags) THEN flags \ {"DONTWAIT", "WAITALL"} ELSE flags

\* what pgm_sendto can answer: everything written, a failure or short write,
\* or -1/EAGAIN when it was asked not to block
SendtoOutcomes(flags) ==
    IF "DONTWAIT" \in flags THEN {"ok", "fail", "eagain"} ELSE {"ok", "fail"}

WirePacket(type, sqn, parity, list, tsdu_length, payload, res, rate_limited) ==
    [type |-> type, sqn |-> sqn, parity |-> parity, list |-> list,
     tsdu_length |-> tsdu_length, payload |-> payload, res |-> res,
     rate_limited |-> rate_limited]

SingleFns == {"one_copy", "one", "onev"}

AddStats(w, bytes, msgs, data_bytes) ==
    [w EXCEPT !.t.stats.SOURCE_BYTES_SENT = @ + bytes,
              !.t.stats.SOURCE_DATA_MSGS_SENT = @ + msgs,
              !.t.stats.SOURCE_DATA_BYTES_SENT = @ + data_bytes]

\* the value a send function returns once its packets are in the window
SendReturnValue(w) ==
    CASE w.p.fn \in {"one_copy", "one"} -> w.p.len
      [] w.p.fn = "onev" -> w.st.tsdu_length
      [] w.p.fn = "send" -> w.p.len
      [] w.p.fn = "sendv" -> w.st.apdu_length
      [] w.p.fn = "skbv" -> w.p.data_bytes_sent

\* pgm_transport_send_one, _one_copy, _onev after pgm_sendto answered ok or fail
AfterSendtoSingle(w, skb, o, nok) ==
    LET tsdu_length == IF w.p.fn = "onev" THEN w.st.tsdu_length ELSE w.p.len
        w1 == pgm_reset_heartbeat_spm([w EXCEPT !.lock = FALSE,
                                                !.t.is_apdu_eagain = FALSE])
        w2 == IF o = "ok" THEN AddStats(w1, skb.len + IphdrLen, 1, tsdu_length) ELSE w1
        w3 == CheckEndOfGroup(w2, skb.sqn, nok)
    IN Ret(w3, SendReturnValue(w3), ENone)

\* the end of a fragmenting send function: unlock, heartbeat, statistics, return
SendEpilogue(w) ==
    LET w1 == pgm_reset_heartbeat_spm([w EXCEPT !.lock = FALSE,
                                                !.t.is_apdu_eagain = FALSE])
        w2 == AddStats(w1, w.p.bytes_sent, w.p.packets_sent, w.p.data_bytes_sent)
    IN Ret(w2, SendReturnValue(w2), ENone)

\* the loop functions after pgm_sendto answered ok or fail: bottom of the loop
AfterSendtoLoop(w, skb, o, nok) ==
    LET w1 == IF o = "ok"
              THEN [w EXCEPT !.p.bytes_sent = @ + skb.len + IphdrLen,
                             !.p.packets_sent = @ + 1,
                             !.p.data_bytes_sent = @ + w.st.tsdu_length]
              ELSE w
        w2 == [w1 EXCEPT !.st.data_bytes_offset = @ + w.st.tsdu_length]
        w3 == CheckEndOfGroup(w2, skb.sqn, nok)
        apdu_length == IF w.p.fn = "send" THEN w.p.len ELSE w.st.apdu_length
        w4 == [w3 EXCEPT !.st.vector_index = @ + 1]
    IN IF w.p.fn = "skbv"
       THEN IF w4.st.vector_index < Len(w.a.req.vec)
            THEN [w4 EXCEPT !.p.pc = "build"]
            ELSE SendEpilogue(w4)
       ELSE IF w3.st.data_bytes_offset < apdu_length
            THEN [w3 EXCEPT !.p.pc = "build"]
            ELSE IF w3.st.data_bytes_offset # apdu_length
                 THEN Crash(w3)
                 ELSE SendEpilogue(w3)

\* pgm_sendto answered -1/EAGAIN
AfterSendtoEagain(w) ==
    LET w1 == [w EXCEPT !.t.is_apdu_eagain = TRUE] IN
    IF w.p.fn \in SingleFns THEN Ret(w1, -1, EAGAIN)
    ELSE IF w.p.bytes_sent # 0
         THEN Ret(AddStats(pgm_reset_heartbeat_spm(w1), w.p.bytes_sent,
                           w.p.packets_sent, w.p.data_bytes_sent), -1, EAGAIN)
         ELSE Ret(w1, -1, EAGAIN)

\* a packet whose control slot is left as it was allocated
UnfoldedOdataNotSaved(w) == w

\* "save unfolded odata for retransmissions": the control slot of STATE(skb)
SaveUnfoldedOdata(w) ==
    [w EXCEPT !.x.skbs[TxwIndex(w.x, w.st.skb[1])].cb = w.st.unfolded_odata]

\* the step at the retry_send label; o: the answer of pgm_sendto
SendtoStep(w, o, nok) ==
    IF w.st.skb = NoSkb \/ ~TxwHas(w.x, w.st.skb[1]) THEN Crash(w)
    ELSE LET skb == pgm_txw_peek(w.x, w.st.skb[1])
             rate_limited == IF w.p.fn \in SingleFns THEN TRUE
                             ELSE ~w.st.is_rate_limited
             retried == w.wire # << >> /\ w.wire[Len(w.wire)].res = "eagain"
             w1 == [w EXCEPT !.wire = Append(@, WirePacket(skb.type, skb.sqn, FALSE,
                                                         << >>, skb.tsdu_length,
                                                         skb.payload, o, rate_limited)),
                             !.a.rate_sends = IF rate_limited /\ ~retried THEN @ + 1 ELSE @,
                             !.a.errno = IF o = "ok" THEN @
                                         ELSE IF o = "eagain" THEN EAGAIN ELSE EIO]
             w2 == SaveUnfoldedOdata(w1)
         IN IF o = "eagain" THEN AfterSendtoEagain(w1)
            ELSE IF w.p.fn \in SingleFns THEN AfterSendtoSingle(w2, skb, o, nok)
            ELSE AfterSendtoLoop(w2, skb, o, nok)


(***************************************************************************)
(* The receive thread: on_nak.                                             *)
(***************************************************************************)
IdleRecv == [pc |-> "idle", sqn_list |-> << >>, i |-> 0, is_parity |-> FALSE,
             retval |-> 0, naks |-> 0, returns |-> 0, accepted |-> FALSE,
             ncf_before |-> 0, spmrs |-> 0, nnaks |-> 0, handler |-> "none",
             arg |-> << >>, win |-> << >>, ncf_variant |-> "none",
             tpdu_length |-> 0, opts |-> << >>, opt_off |-> 0]

\* values an int that was never assigned may hold
UninitInts == {0, RetEINVAL, 7}

\* a rejected NAK counted as malformed only
NakRejectedNotDiscarded(w, retval) ==
    [w EXCEPT !.t.stats.SOURCE_MALFORMED_NAKS = @ + 1,
              !.r.pc = "idle", !.r.retval = retval, !.r.returns = @ + 1,
              !.r.accepted = FALSE, !.r.sqn_list = << >>]

\* a rejected NAK: counted malformed and discarded
NakRejected(w, retval) ==
    [w EXCEPT !.t.stats.SOURCE_MALFORMED_NAKS = @ + 1,
              !.t.stats.SOURCE_PACKETS_DISCARDED = @ + 1,
              !.r.pc = "idle", !.r.retval = retval, !.r.returns = @ + 1,
              !.r.accepted = FALSE, !.r.sqn_list = << >>]

\* an NCF that never carries OPT_PARITY
NcfParityCleared(is_parity) == FALSE

\* pgm_options of the NCF: send_ncf and send_ncf_list
NcfParity(is_parity) == is_parity

\* an NCF that is built but not handed to the socket
SendNcfLost(w, sqn_list, is_parity, o) == w

\* send_ncf / send_ncf_list: the NCF is handed to the socket, not rate limited
SendNcf(w, sqn_list, is_parity, o) ==
    LET tpdu_length == PgmHeaderLen + Len(sqn_list)
    IN [w EXCEPT !.ra = Append(@, WirePacket("NCF", sqn_list[1], NcfParity(is_parity),
                                             Tail(sqn_list), 0, << >>, o, FALSE)),
                 !.t.stats.SOURCE_BYTES_SENT = IF o = "ok" THEN @ + tpdu_length ELSE @]

\* sizeof(struct pgm_opt_length), sizeof(struct pgm_opt_header), sizeof(guint8)
\* and sizeof(guint32)
SizeofOptLength == 4
SizeofOptHeader == 3
SizeofGuint8 == 1
SizeofGuint32 == 4

\* capacity of pgm_sqn_list_t.sqn
SqnListMax == 63

\* the address family of the NLAs of an IPv4 transport
SendAfi == "IP"

\* sa_family of IPv4 and IPv6 socket addresses, and the AFI of an IPv6 NLA
AF_INET == 2
AF_INET6 == 10
AFI_IP6 == 2

\* sizeof(struct pgm_header), sizeof(struct pgm_nak), sizeof(struct pgm_nak6)
\* and sizeof(struct pgm_opt_nak_list)
SizeofPgmHeader == 16
SizeofPgmNak == 20
SizeofPgmNak6 == 44
SizeofOptNakList == 1

\* pgm_sockaddr_family of the socket address pgm_nla_to_sockaddr filled in
pgm_sockaddr_family(afi) == IF afi = "IP6" THEN AF_INET6 ELSE AF_INET

\* tpdu_length of send_ncf
SendNcfLength(nak_src_afi) ==
    SizeofPgmHeader + SizeofPgmNak
    + (IF pgm_sockaddr_family(nak_src_afi) = AF_INET6
       THEN SizeofPgmNak6 - SizeofPgmNak ELSE 0)

\* the bytes of the OPT_LENGTH and OPT_NAK_LIST options of a list of len numbers
NcfOptionBytes(len) ==
    SizeofOptLength + SizeofOptHeader + SizeofOptNakList
    + (len - 1) * SizeofGuint32

\* "if (pgm_sockaddr_family(nak_src_nla) == AFI_IP6)" of send_ncf_list
NcfListFamilyTest(family) == family = AFI_IP6

\* tpdu_length of send_ncf_list
SendNcfListLength(nak_src_afi, len) ==
    SizeofPgmHeader + SizeofPgmNak + NcfOptionBytes(len)
    + (IF NcfListFamilyTest(pgm_sockaddr_family(nak_src_afi))
       THEN SizeofPgmNak6 - SizeofPgmNak ELSE 0)

\* the bytes send_ncf_list writes into buf: the body and the options are
\* placed by the AFI that pgm_sockaddr_to_nla stored
SendNcfListWritten(nak_src_afi, len) ==
    SizeofPgmHeader + (IF nak_src_afi = "IP6" THEN SizeofPgmNak6 ELSE SizeofPgmNak)
    + NcfOptionBytes(len)

\* pgm_sockaddr_cmp: zero only for the same family and the same address
pgm_sockaddr_cmp(afi, same_addr, own_afi) ==
    IF afi = own_afi /\ same_addr THEN 0 ELSE 1

\* nak_list_len of on_nak: the unsigned quotient stored in a guint; a
\* subtraction that wraps leaves UINT32_MAX (2^30 - 1 where size_t has 32 bits)
NakListLen(opt_length) ==
    (opt_length - SizeofOptHeader - SizeofGuint8) \div SizeofGuint32

\* g_ntohl (*nak_list) at position i of the option
NakListWord(nak, i) == nak.sqns[i + 1]

\* a call of the list variant whatever the list holds
SendNcfListAlways(nak_list_len) == TRUE

\* "if (nak_list_len)": the NCF variant on_nak calls
SendNcfListCalled(nak_list_len) == nak_list_len # 0

\* the three assertions at the head of send_ncf_list
SendNcfListAsserts(nak_src_afi, nak_grp_afi, sqn_list) ==
    /\ Len(sqn_list) > 1
    /\ Len(sqn_list) <= SqnListMax
    /\ nak_src_afi = nak_grp_afi

\* on_nak from the sequence list to the NCF, for a NAK that passed every check
OnNakList(w, nak, o) ==
    LET nak_list_len == IF nak.opt_present THEN NakListLen(nak.opt_length) ELSE 0
        sqn_list == << nak.sqns[1] >>
                    \o [i \in 1 .. nak_list_len |-> NakListWord(nak, i)]
        list == SendNcfListCalled(nak_list_len)
        tpdu_length == IF list THEN SendNcfListLength(nak.src_afi, Len(sqn_list))
                       ELSE SendNcfLength(nak.src_afi)
    IN IF nak_list_len < 0 \/ nak_list_len > SqnListMax - 1
       THEN [Crash(w) EXCEPT !.r.ncf_variant = "overrun", !.r.accepted = FALSE,
                             !.r.sqn_list = << >>]
       ELSE IF list /\ ~SendNcfListAsserts(nak.src_afi, nak.grp_afi, sqn_list)
       THEN [Crash(w) EXCEPT !.r.ncf_variant = "assert", !.r.accepted = FALSE,
                             !.r.sqn_list = sqn_list]
       ELSE IF /\ list /\ o = "smash"
               /\ SendNcfListWritten(nak.src_afi, Len(sqn_list)) > tpdu_length
       THEN [Crash(w) EXCEPT !.r.ncf_variant = "smashed", !.r.accepted = FALSE,
                             !.r.sqn_list = sqn_list]
       ELSE [SendNcf(w, sqn_list, nak.parity, IF o = "smash" THEN "ok" ELSE o)
                EXCEPT !.r.pc = "push", !.r.sqn_list = sqn_list, !.r.i = 0,
                       !.r.retval = 0, !.r.accepted = TRUE,
                       !.r.ncf_variant = IF list THEN "list" ELSE "single",
                       !.r.tpdu_length = tpdu_length]

\* on_nak up to and including the NCF; nak.fault names the check the packet
\* fails, "none" for a valid NAK; u: the value of the unassigned retval
OnNakHead(w, nak, o, u) ==
    LET w0 == [w EXCEPT !.r.naks = @ + 1, !.r.is_parity = nak.parity,
                        !.r.ncf_before = Len(w.ra), !.r.handler = "nak",
                        !.r.arg = nak, !.r.ncf_variant = "none"]
        w1 == IF nak.parity
              THEN [w0 EXCEPT !.t.stats.SOURCE_PARITY_NAKS_RECEIVED = @ + 1]
              ELSE [w0 EXCEPT !.t.stats.SOURCE_SELECTIVE_NAKS_RECEIVED = @ + 1]
    IN IF nak.parity /\ ~cfg.use_ondemand_parity THEN NakRejected(w1, u)
       ELSE IF nak.fault = "verify" THEN NakRejected(w1, RetEINVAL)
       ELSE IF pgm_sockaddr_cmp(nak.src_afi, nak.fault # "src_nla", cfg.afi) # 0
       THEN NakRejected(w1, RetEINVAL)
       ELSE IF pgm_sockaddr_cmp(nak.grp_afi, nak.fault # "grp_nla", cfg.afi) # 0
       THEN NakRejected(w1, RetEINVAL)
       ELSE IF nak.fault # "none" THEN NakRejected(w1, RetEINVAL)
       ELSE OnNakList(w1, nak, o)

\* a loop that queues the request whether or not the window holds the packet
OnNakPushStepAnywhere(w, nok) ==
    LET sqn == w.r.sqn_list[w.r.i + 1]
        w1 == [w EXCEPT !.x.rq = Append(@, [key |-> RqKey(sqn, w.r.is_parity,
                                                          cfg.tg_sqn_shift),
                                            sqn |-> sqn, is_parity |-> w.r.is_parity,
                                            rs_h |-> 0]),
                        !.rn = IF nok THEN @ + 1 ELSE @,
                        !.r.i = @ + 1]
    IN IF w1.r.i < Len(w.r.sqn_list) THEN w1
       ELSE [w1 EXCEPT !.r.pc = "idle", !.r.returns = @ + 1]

\* one turn of the "queue retransmit requests" loop; nok: pgm_notify_send succeeded
OnNakPushStep(w, nok) ==
    LET sqn == w.r.sqn_list[w.r.i + 1]
        cnt == RetransmitPushCount(w.x, sqn, w.r.is_parity, cfg.tg_sqn_shift)
        w1 == [w EXCEPT !.x = pgm_txw_retransmit_push(w.x, sqn, w.r.is_parity,
                                                     cfg.tg_sqn_shift),
                        !.rn = IF cnt > 0 /\ nok THEN @ + 1 ELSE @,
                        !.t.notify_failed = IF cnt > 0 /\ ~nok THEN @ + 1 ELSE @,
                        !.r.retval = IF cnt > 0 /\ ~nok THEN RetEINVAL ELSE @,
                        !.r.i = @ + 1]
    IN IF w1.r.i < Len(w.r.sqn_list) THEN w1
       ELSE [w1 EXCEPT !.r.pc = "idle", !.r.returns = @ + 1]

(***************************************************************************)
(* The repair consumer: on_nak_notify and send_rdata.                      *)
(***************************************************************************)
\* send_rdata up to pgm_sendto: the packet as it is handed to the socket
RdataOf(w, skb, has_saved_partial_csum, partial_csum) ==
    LET unfolded_odata == IF has_saved_partial_csum THEN partial_csum
                          ELSE pgm_csum_partial(PayloadWords(skb.payload))
        pkt == [skb EXCEPT !.type = "RDATA", !.trail = pgm_txw_trail(w.x),
                           !.sport = TsiSport, !.dport = Dport, !.checksum = 0]
    IN [pkt EXCEPT !.checksum = HeaderChecksum(pkt, unfolded_odata)]

\* "re-save unfolded payload for further retransmissions": the checksum is
\* written over pgm_sport and pgm_dport of the buffered packet
RdataResaved(pkt, has_saved_partial_csum, unfolded_odata) ==
    IF has_saved_partial_csum
    THEN [pkt EXCEPT !.sport = Lo16(unfolded_odata), !.dport = Hi16(unfolded_odata)]
    ELSE pkt

\* send_rdata: o is the answer of pgm_sendto
send_rdata(w, pkt, is_parity, o) ==
    LET w1 == [w EXCEPT !.ra = Append(@, WirePacket("RDATA", pkt.sqn, is_parity, << >>,
                                                    pkt.tsdu_length, pkt.payload, o, TRUE)
                                         @@ [pkt |-> pkt]),
                        !.t.spm_heartbeat_state = 2,
                        !.t.next_heartbeat_spm = now + HeartbeatInterval(1)]
    IN IF o # "ok" THEN w1
       ELSE [w1 EXCEPT !.t.stats.SOURCE_SELECTIVE_BYTES_RETRANSMITTED = @ + pkt.tsdu_length,
                       !.t.stats.SOURCE_SELECTIVE_MSGS_RETRANSMITTED = @ + 1,
                       !.t.stats.SOURCE_BYTES_SENT = @ + pkt.len + IphdrLen]

\* the packets tg_sqn .. tg_sqn + k - 1 are all in the window
GroupInWindow(x, tg_sqn) ==
    \A i \in 0..(cfg.rs_k - 1) : TxwHas(x, Add32(tg_sqn, i))

\* parity_length and is_var_pktlen as the loop over the group computes them
RECURSIVE GroupLength(_, _, _, _, _)
GroupLength(x, tg_sqn, i, parity_length, is_var_pktlen) ==
    IF i >= cfg.rs_k
    THEN [parity_length |-> parity_length, is_var_pktlen |-> is_var_pktlen]
    ELSE LET odata_tsdu_length == pgm_txw_peek(x, Add32(tg_sqn, i)).tsdu_length IN
         IF parity_length = 0
         THEN GroupLength(x, tg_sqn, i + 1, odata_tsdu_length, is_var_pktlen)
         ELSE IF odata_tsdu_length # parity_length
         THEN GroupLength(x, tg_sqn, i + 1,
                          IF odata_tsdu_length > parity_length
                          THEN odata_tsdu_length ELSE parity_length, TRUE)
         ELSE GroupLength(x, tg_sqn, i + 1, parity_length, is_var_pktlen)

\* the parity packet of on_nak_notify for the group of tg_sqn
ParityPacket(x, tg_sqn, rs_h) ==
    LET g == GroupLength(x, tg_sqn, 0, 0, FALSE)
        parity_length == g.parity_length + (IF g.is_var_pktlen THEN 2 ELSE 0)
        is_op_encoded == \E i \in 0..(cfg.rs_k - 1) :
                            pgm_txw_peek(x, Add32(tg_sqn, i)).opt_present
    IN [sqn |-> BitOr(tg_sqn, rs_h),
        trail |-> pgm_txw_trail(x),
        type |-> "RDATA",
        sport |-> 0,
        dport |-> 0,
        opt_present |-> is_op_encoded,
        parity |-> TRUE,
        var_pktlen |-> g.is_var_pktlen,
        checksum |-> 0,
        frag |-> NoFragment,
        tsdu_length |-> parity_length,
        len |-> PgmHeaderLen + parity_length + (IF is_op_encoded THEN OptFragmentLen ELSE 0),
        payload |-> << << "parity", tg_sqn, rs_h >> >>]

\* "zero pad as necessary": the originals of a variable length group are padded once
ZeroPadGroup(x, tg_sqn) ==
    [x EXCEPT !.skbs = [j \in 1..Len(x.skbs) |->
        IF Less32(Sub32(x.skbs[j].sqn, tg_sqn), cfg.rs_k)
        THEN [x.skbs[j] EXCEPT !.zero_padded = TRUE]
        ELSE x.skbs[j]]]

\* on_nak_notify with a request at the head of the retransmit queue
RepairHead(w, o, ub) ==
    LET e == Head(w.x.rq)
        r_skb == pgm_txw_peek(w.x, e.key)
    IN IF cfg.rs_n - cfg.rs_k = 0 /\ ub = "crash" THEN Crash(w)
       ELSE IF ~e.is_parity
       THEN LET idx == TxwIndex(w.x, e.key)
                pkt == RdataOf(w, r_skb, TRUE, r_skb.cb)
                w1 == send_rdata(w, pkt, FALSE, o)
            IN [w1 EXCEPT !.x.skbs[idx] = RdataResaved(pkt, TRUE, r_skb.cb),
                          !.x.rq = Tail(@)]
       ELSE LET rs_h == IF cfg.rs_n - cfg.rs_k = 0 THEN 0
                        ELSE e.rs_h % (cfg.rs_n - cfg.rs_k)
                tg_sqn == BitAnd(r_skb.sqn, TgSqnMask(cfg.tg_sqn_shift))
            IN IF ~GroupInWindow(w.x, tg_sqn) THEN Crash(w)
               ELSE LET parity == ParityPacket(w.x, tg_sqn, rs_h)
                        pkt == RdataOf(w, parity, FALSE, 0)
                        x1 == IF pkt.var_pktlen THEN ZeroPadGroup(w.x, tg_sqn) ELSE w.x
                        w1 == send_rdata([w EXCEPT !.x = x1], pkt, TRUE, o)
                    IN [w1 EXCEPT !.x.rq = Tail(@)]

\* a consumer that removes the head of the queue without sending its repair
OnNakNotifyDropsHead(w, o, ub) ==
    LET w1 == [w EXCEPT !.rn = @ - 1] IN
    IF w.x.rq = << >> THEN w1 ELSE [w1 EXCEPT !.x.rq = Tail(@)]

\* a consumer that sends the repair and leaves the request at the head of the queue
OnNakNotifyKeepsHead(w, o, ub) ==
    LET w1 == [w EXCEPT !.rn = @ - 1] IN
    IF w.x.rq = << >> THEN w1 ELSE [RepairHead(w1, o, ub) EXCEPT !.x.rq = w.x.rq]

\* on_nak_notify: one event is read, one request is served under the reader lock
OnNakNotifyStep(w, o, ub) ==
    LET w1 == [w EXCEPT !.rn = @ - 1] IN
    IF w.x.rq = << >> THEN w1 ELSE RepairHead(w1, o, ub)


(***************************************************************************)
(* Initial state and inputs.                                               *)
(***************************************************************************)
(***************************************************************************)
(* SPM, SPMR and N-NAK.                                                    *)
(***************************************************************************)
\* transport->spm_len
SpmLen == 2

\* send_spm_unlocked: spm->spm_sqn = g_htonl (transport->spm_sqn++), into the
\* SPM packet all senders recycle
SpmStamp(w) ==
    [w EXCEPT !.t.spm_packet.spm_sqn = w.t.spm_sqn,
              !.t.spm_sqn = Add32(@, 1)]

\* the SPM packet keeps the trail and lead it had
SpmSnapshotSkipped(w) == w

\* send_spm_unlocked: trail and lead are read under the reader lock
SpmSnapshot(w) ==
    [w EXCEPT !.t.spm_packet.spm_trail = pgm_txw_trail(w.x),
              !.t.spm_packet.spm_lead = pgm_txw_lead(w.x)]

\* the SPM packet as thread by hands it to pgm_sendto
SpmOnWire(pkt, by, o) ==
    [type |-> "SPM", sqn |-> pkt.spm_sqn, trail |-> pkt.spm_trail, lead |-> pkt.spm_lead,
     by |-> by, parity |-> FALSE, list |-> << >>, tsdu_length |-> 0, payload |-> << >>,
     res |-> o, rate_limited |-> TRUE]

\* send_spm_unlocked: pgm_sendto with router alert, then the byte counter
SpmSendto(w, by, o) ==
    [w EXCEPT !.ra = Append(@, SpmOnWire(w.t.spm_packet, by, o)),
              !.t.stats.SOURCE_BYTES_SENT = IF o = "ok" THEN @ + SpmLen ELSE @]

\* one step of the thread by at position pc inside send_spm: the mutex is
\* taken and the packet stamped, the window is read, the packet is sent and
\* the mutex released
SendSpmStep(w, by, pc, o) ==
    CASE pc = "spm_lock" -> [SpmStamp(w) EXCEPT !.t.mutex = by]
      [] pc = "spm_snap" -> SpmSnapshot(w)
      [] pc = "spm_send" -> [SpmSendto(w, by, o) EXCEPT !.t.mutex = "free"]

SpmNextPc(pc) ==
    CASE pc = "spm_lock" -> "spm_snap"
      [] pc = "spm_snap" -> "spm_send"
      [] pc = "spm_send" -> "idle"

\* the step of send_spm at pc can be taken: the mutex, the reader lock
SpmStepEnabled(w, pc) ==
    CASE pc = "spm_lock" -> MutexFree(w)
      [] pc = "spm_snap" -> ~w.lock
      [] pc = "spm_send" -> TRUE

\* on_spmr up to the call of send_spm; spmr.verify is what pgm_verify_spmr
\* returns, spmr.peer tells whether a pgm_peer_t was handed in
OnSpmrHead(w, spmr) ==
    LET w1 == [w EXCEPT !.r.spmrs = @ + 1, !.r.handler = "spmr", !.r.arg = spmr,
                        !.r.win = << pgm_txw_trail(w.x), pgm_txw_lead(w.x) >>,
                        !.r.retval = spmr.verify] IN
    IF spmr.verify = 0
    THEN IF ~spmr.peer
         THEN [w1 EXCEPT !.r.pc = "spm_lock"]
         ELSE [w1 EXCEPT !.peer.spmr_expiry = 0, !.r.returns = @ + 1]
    ELSE [w1 EXCEPT !.t.stats.SOURCE_PACKETS_DISCARDED = @ + 1, !.r.returns = @ + 1]

\* on_spmr inside send_spm and its return
OnSpmrStep(w, o) ==
    LET w1 == SendSpmStep(w, "recv", w.r.pc, o)
        pc == SpmNextPc(w.r.pc)
    IN [w1 EXCEPT !.r.pc = pc, !.r.returns = IF pc = "idle" THEN @ + 1 ELSE @]

\* the timer thread sends a heartbeat or ambient SPM: it holds the mutex
\* around send_spm_unlocked
TimerSpmStep(w, o) ==
    LET pc == IF w.tm.pc = "idle" THEN "spm_lock" ELSE w.tm.pc
        w1 == SendSpmStep(w, "timer", pc, o)
    IN [w1 EXCEPT !.tm.pc = SpmNextPc(pc),
                  !.tm.spms = IF pc = "spm_lock" THEN @ + 1 ELSE @]

\* an option of length 3 + 1 + 4 n bytes holding n sequence numbers
OptNakList(n, end) ==
    [opt_type |-> "OPT_NAK_LIST", opt_end |-> end,
     opt_length |-> SizeofOptHeader + SizeofGuint8 + SizeofGuint32 * n]

\* an option on_nnak passes over
OptOther(end) == [opt_type |-> "OPT_OTHER", opt_end |-> end, opt_length |-> 4]

\* "check NNAK list": the options after OPT_LENGTH are walked up to the first
\* OPT_NAK_LIST or the option marked OPT_END
RECURSIVE NnakListLen(_, _)
NnakListLen(opts, i) ==
    IF opts[i].opt_type = "OPT_NAK_LIST"
    THEN (opts[i].opt_length - SizeofOptHeader - SizeofGuint8) \div SizeofGuint32
    ELSE IF opts[i].opt_end THEN 0
    ELSE NnakListLen(opts, i + 1)

\* an N-NAK turned away without a trace in the counters
NnakRejectedUncounted(w, retval) ==
    [w EXCEPT !.r.retval = retval, !.r.returns = @ + 1]

\* a rejected N-NAK
NnakRejected(w, retval) ==
    [w EXCEPT !.t.stats.SOURCE_NNAK_ERRORS = @ + 1,
              !.t.stats.SOURCE_PACKETS_DISCARDED = @ + 1,
              !.r.retval = retval, !.r.returns = @ + 1]

\* the options after OPT_LENGTH of an N-NAK: nnak.others options of another
\* type, then an OPT_NAK_LIST of nnak.list_len sequence numbers unless that is
\* -1; no options at all without PGM_OPT_PRESENT
NnakOptions(nnak) ==
    IF nnak.list_len >= 0
    THEN [i \in 1..nnak.others |-> OptOther(FALSE)] \o << OptNakList(nnak.list_len, TRUE) >>
    ELSE [i \in 1..nnak.others |-> OptOther(i = nnak.others)]

\* on_nnak; nnak.fault names the check the packet fails, "none" for a valid
\* N-NAK
on_nnak(w, nnak) ==
    LET w1 == [w EXCEPT !.t.stats.SOURCE_SELECTIVE_NNAK_PACKETS_RECEIVED = @ + 1,
                        !.r.nnaks = @ + 1, !.r.handler = "nnak",
                        !.r.arg = [valid |-> nnak.fault = "none",
                                   list_len |-> IF nnak.fault = "none" /\ nnak.list_len > 0
                                                THEN nnak.list_len ELSE 0]]
        opts == NnakOptions(nnak)
        nnak_list_len == IF opts = << >> THEN 0 ELSE NnakListLen(opts, 1)
    IN IF nnak.fault # "none" THEN NnakRejected(w1, RetEINVAL)
       ELSE [w1 EXCEPT !.t.stats.SOURCE_SELECTIVE_NNAKS_RECEIVED = @ + 1 + nnak_list_len,
                       !.r.retval = 0, !.r.returns = @ + 1]

\* pgm_transport_set_heartbeat_spm: the array stored for the first len intervals;
\* slot len + 1 of the (len + 2) slots is never assigned and holds junk
StoredHeartbeat(spm_heartbeat_interval, len, junk) ==
    [i \in 1..(len + 2) |->
        IF i = 1 \/ i = len + 1 THEN 0
        ELSE IF i = len + 2 THEN junk
        ELSE spm_heartbeat_interval[i - 1]]

\* the heartbeat schedule of the bound transport
HeartbeatSchedule == StoredHeartbeat(<< 2, 4 >>, 2, 0)

\* the settings of a bound transport, Reed-Solomon parity off
NoFec == [is_bound |-> TRUE, spm_ambient_interval |-> 8,
          spm_heartbeat_interval |-> HeartbeatSchedule,
          txw_preallocate |-> 0, txw_sqns |-> TxwSqns, txw_secs |-> 0,
          txw_max_rte |-> 0,
          rs_n |-> 0, rs_k |-> 0, tg_sqn_shift |-> 0, rs_proactive_h |-> 0,
          use_proactive_parity |-> FALSE, use_ondemand_parity |-> FALSE,
          afi |-> "IP"]

\* Reed-Solomon (3, 2): transmission groups of two packets
Fec(proactive, ondemand) ==
    [NoFec EXCEPT !.rs_n = 3, !.rs_k = 2, !.tg_sqn_shift = 1, !.rs_proactive_h = 1,
                  !.use_proactive_parity = proactive,
                  !.use_ondemand_parity = ondemand]

Configs == {NoFec, Fec(TRUE, TRUE), Fec(FALSE, TRUE)}

ZeroStats ==
    [SOURCE_BYTES_SENT |-> 0, SOURCE_DATA_BYTES_SENT |-> 0, SOURCE_DATA_MSGS_SENT |-> 0,
     SOURCE_SELECTIVE_BYTES_RETRANSMITTED |-> 0, SOURCE_SELECTIVE_MSGS_RETRANSMITTED |-> 0,
     SOURCE_SELECTIVE_NAKS_RECEIVED |-> 0, SOURCE_PARITY_NAKS_RECEIVED |-> 0,
     SOURCE_MALFORMED_NAKS |-> 0, SOURCE_PACKETS_DISCARDED |-> 0,
     SOURCE_SELECTIVE_NNAK_PACKETS_RECEIVED |-> 0, SOURCE_SELECTIVE_NNAKS_RECEIVED |-> 0,
     SOURCE_NNAK_ERRORS |-> 0]

NoReq == [shape |-> "none", vec |-> << >>, len |-> 0, flags |-> {}, one_apdu |-> FALSE]

Req(shape, vec, flags, one) ==
    [shape |-> shape, vec |-> vec, len |-> Len(vec), flags |-> flags, one_apdu |-> one]

\* the requests of the application: one packet and several fragments for each
\* entry point, blocking, non-blocking and rate checked, and requests too
\* long for the window or for one packet
Requests ==
    { Req("send", << n >>, f, FALSE) : n \in {1, 3}, f \in FlagSets }
    \cup { Req("send", << 5 >>, {"DONTWAIT"}, FALSE) }
    \cup { Req("sendv", << 1, 1 >>, f, one) : f \in { {}, {"DONTWAIT"} }, one \in BOOLEAN }
    \cup { Req("sendv", << 2, 3 >>, f, one) : f \in FlagSets, one \in BOOLEAN }
    \cup { Req("skbv", << 1 >>, f, FALSE) : f \in { {}, {"DONTWAIT"} } }
    \cup { Req("skbv", << 2, 1 >>, f, one) : f \in FlagSets, one \in BOOLEAN }
    \cup { Req("skbv", << 2, 3 >>, f, TRUE) : f \in { {}, {"DONTWAIT", "WAITALL"} } }
    \cup { Req("send", << 7 >>, {}, FALSE), Req("sendv", << 4, 3 >>, {}, TRUE) }

\* the first sequence numbers the window will hold, and one it will not
NakSqns == {0, 1, 9}

\* a NAK whose OPT_NAK_LIST, when it has one, is as long as its list
Nak(parity, fault, sqns) ==
    [parity |-> parity, fault |-> fault, sqns |-> sqns,
     src_afi |-> SendAfi, grp_afi |-> SendAfi, opt_present |-> Len(sqns) > 1,
     opt_length |-> IF Len(sqns) > 1
                    THEN SizeofOptHeader + SizeofGuint8
                         + SizeofGuint32 * (Len(sqns) - 1)
                    ELSE 0]

NakFaults == {"verify", "src_nla", "grp_nla", "opt_type", "opt_length"}

\* the NAK packets the network delivers
Naks ==
    { Nak(par, f, << 0 >>) : par \in BOOLEAN, f \in NakFaults }
    \cup { Nak(par, "none", << s >>) : par \in BOOLEAN, s \in NakSqns }
    \cup { Nak(par, "none", << 1, 0 >>) : par \in BOOLEAN }

\* the SPMRs the receive thread can be handed
Spmrs == [verify : {0, RetEINVAL}, peer : BOOLEAN]

\* the N-NAKs the receive thread can be handed
Nnaks == [fault : NakFaults \cup {"none"}, others : 0..1, list_len : {0 - 1, 0, 2}]

\* the SPM template before any SPM was sent
NoSpm == [spm_sqn |-> 0, spm_trail |-> 0, spm_lead |-> 0]

\* the timer thread outside send_spm_unlocked
IdleTimer == [pc |-> "idle", spms |-> 0]

\* the bound transport, its SPM counter starting at one of SpmSqns
InitWith(Cfgs, SpmSqns) ==
    /\ cfg \in Cfgs
    /\ \E spm_sqn \in SpmSqns :
         transport = [is_open |-> TRUE, is_apdu_eagain |-> FALSE, stats |-> ZeroStats,
                      spm_heartbeat_state |-> 0, next_heartbeat_spm |-> 0,
                      next_poll |-> 5, hb_resets |-> 0, hb_locked |-> 0,
                      hb_wait |-> FALSE,
                      notify_failed |-> 0,
                      spm_sqn |-> spm_sqn, spm_packet |-> NoSpm, mutex |-> "free"]
    /\ st = [skb |-> NoSkb, tsdu_length |-> 0, apdu_length |-> 0,
             data_bytes_offset |-> 0, first_sqn |-> 0, vector_index |-> 0,
             vector_offset |-> 0, data_pkt_offset |-> 0, is_rate_limited |-> FALSE,
             unfolded_odata |-> 0]
    /\ txw = [lead |-> UINT32_MAX, trail |-> 0, skbs |-> << >>, rq |-> << >>]
    /\ txw_lock = FALSE
    /\ rdata_notify = 0
    /\ timer_notify = 0
    /\ prod = IdleProd
    /\ app = [req |-> NoReq, orig |-> NoReq, phase |-> "none", ret |-> 0,
              errno |-> ENone, calls |-> 0, log_start |-> 0,
              wire_start |-> 0, resumed |-> FALSE,
              rate_checks |-> 0, rate_sends |-> 0, entry_log |-> 0, entry_wire |-> 0,
              entry_eagain |-> FALSE, entry_st |-> << >>,
              entry_lock |-> FALSE]
    /\ recv = IdleRecv
    /\ wire = << >>
    /\ ra_wire = << >>
    /\ odata_log = << >>
    /\ crashed = FALSE
    /\ now = 0
    /\ timer = IdleTimer
    /\ peer = [spmr_expiry |-> 5]

InitOf(Cfgs) == InitWith(Cfgs, {0})

(***************************************************************************)
(* Actions.                                                                *)
(***************************************************************************)
\* the application calls a send function: a new request, or the same call
\* again after -1/EAGAIN
AppCall(Reqs) ==
    /\ ~crashed /\ ~transport.hb_wait
    /\ prod.pc = "idle"
    /\ \E req \in Reqs, rok \in BOOLEAN :
         /\ IF app.phase = "again" THEN req = app.orig
            ELSE app.calls < MaxCalls
         /\ BothFlags(req.flags) \/ rok
         /\ LET a1 == IF app.phase = "again"
                      THEN [app EXCEPT !.resumed = TRUE]
                      ELSE [app EXCEPT !.req = req, !.orig = req, !.calls = @ + 1,
                                       !.log_start = Len(odata_log),
                                       !.wire_start = Len(wire),
                                       !.resumed = FALSE]
                a2 == [a1 EXCEPT !.rate_checks = 0, !.rate_sends = 0,
                                 !.entry_log = Len(odata_log),
                                 !.entry_wire = Len(wire),
                                 !.entry_eagain = transport.is_apdu_eagain,
                                 !.entry_st = st, !.entry_lock = txw_lock]
                w == [World EXCEPT !.a = a2]
            IN Commit(EnterRequest(w, a1.req, rok))
    /\ UNCHANGED << cfg, now >>

\* pgm_transport_sendv, is_one_apdu false: pgm_transport_send of the next element
SendvCall ==
    /\ ~crashed /\ ~transport.hb_wait
    /\ prod.pc = "vcall"
    /\ \E rok \in BOOLEAN :
         /\ BothFlags(prod.flags) \/ rok
         /\ IF st.data_pkt_offset < Len(app.req.vec)
            THEN Commit(EnterSend(World, app.req.vec[st.data_pkt_offset + 1],
                                  prod.flags, rok))
            ELSE Commit(Crash(World))
    /\ UNCHANGED << cfg, now >>

\* a packet is built and added to the window, under the writer lock
BuildStep ==
    /\ ~crashed /\ ~transport.hb_wait
    /\ prod.pc = "build"
    /\ prod.take_lock => ~txw_lock
    /\ Commit(BuildPacket(World))
    /\ UNCHANGED << cfg, now >>

\* pgm_sendto of STATE(skb) and the rest of the loop body or function
SendtoCall ==
    /\ ~crashed /\ ~transport.hb_wait
    /\ prod.pc = "sendto"
    /\ \E o \in SendtoOutcomes(SendtoFlags(prod.flags)), nok \in BOOLEAN :
         /\ nok \/ (cfg.use_proactive_parity /\ o # "eagain")
         /\ o = "eagain" =>
              Cardinality({i \in DOMAIN wire : wire[i].res = "eagain"}) < MaxEagain
         /\ o = "fail" =>
              Cardinality({i \in DOMAIN wire : wire[i].res = "fail"}) < MaxFail
         /\ Commit(SendtoStep(World, o, nok))
    /\ UNCHANGED << cfg, now >>

\* on_nak: a NAK arrives; through the NCF
OnNak(Packets, Limit) ==
    /\ ~crashed
    /\ recv.pc = "idle"
    /\ recv.naks < Limit
    /\ \E nak \in Packets, o \in {"ok", "fail", "smash"}, u \in UninitInts :
         /\ (nak.parity /\ ~cfg.use_ondemand_parity) \/ u = 0
         /\ o = "smash" => OnNakHead(World, nak, o, u).r.ncf_variant = "smashed"
         /\ (nak.fault = "none" /\ ~(nak.parity /\ ~cfg.use_ondemand_parity)) \/ o = "ok"
         /\ Commit(OnNakHead(World, nak, o, u))
    /\ UNCHANGED << cfg, now >>

\* on_nak: one retransmit request is queued
OnNakPush ==
    /\ ~crashed
    /\ recv.pc = "push"
    /\ \E nok \in BOOLEAN : Commit(OnNakPushStep(World, nok))
    /\ UNCHANGED << cfg, now >>

\* on_nak_notify: the repair consumer is woken by the notification channel
OnNakNotify ==
    /\ ~crashed
    /\ rdata_notify > 0
    /\ ~txw_lock
    /\ \E o \in {"ok", "fail"}, ub \in {"crash", "go"} :
         /\ ub = "go" \/ (txw.rq # << >> /\ cfg.rs_n - cfg.rs_k = 0)
         /\ o = "ok" \/ txw.rq # << >>
         /\ Commit(OnNakNotifyStep(World, o, ub))
    /\ UNCHANGED << cfg, now >>

\* the transport is closed
Close ==
    /\ ~crashed
    /\ transport.is_open
    /\ prod.pc = "idle"
    /\ transport' = [transport EXCEPT !.is_open = FALSE]
    /\ UNCHANGED << cfg, st, txw, txw_lock, rdata_notify, timer_notify, prod, app,
                    recv, wire, ra_wire, odata_log, crashed, now,
                    timer, peer >>

\* on_spmr: an SPMR arrives
OnSpmr ==
    /\ ~crashed
    /\ recv.pc = "idle"
    /\ recv.spmrs < MaxSpmrs
    /\ \E spmr \in Spmrs : Commit(OnSpmrHead(World, spmr))
    /\ UNCHANGED << cfg, now >>

\* on_spmr: the next step of send_spm
OnSpmrSpm ==
    /\ ~crashed
    /\ recv.pc \in {"spm_lock", "spm_snap", "spm_send"}
    /\ SpmStepEnabled(World, recv.pc)
    /\ \E o \in {"ok", "fail"} :
         /\ o = "ok" \/ recv.pc = "spm_send"
         /\ Commit(OnSpmrStep(World, o))
    /\ UNCHANGED << cfg, now >>

\* the timer thread: the next step of a heartbeat or ambient SPM
TimerSpm ==
    /\ ~crashed
    /\ IF timer.pc = "idle"
       THEN timer.spms < MaxSpms /\ SpmStepEnabled(World, "spm_lock")
       ELSE SpmStepEnabled(World, timer.pc)
    /\ \E o \in {"ok", "fail"} :
         /\ o = "ok" \/ timer.pc = "spm_send"
         /\ Commit(TimerSpmStep(World, o))
    /\ UNCHANGED << cfg, now >>

\* on_nnak: an N-NAK arrives
OnNnak ==
    /\ ~crashed
    /\ recv.pc = "idle"
    /\ recv.nnaks < MaxNnaks
    /\ \E nnak \in Nnaks : Commit(on_nnak(World, nnak))
    /\ UNCHANGED << cfg, now >>

\* time passes between the steps of the threads
Tick ==
    /\ now < MaxNow
    /\ now' = now + 1
    /\ UNCHANGED << cfg, transport, st, txw, txw_lock, rdata_notify, timer_notify, prod,
                    app, recv, wire, ra_wire, odata_log, crashed,
                    timer, peer >>

\* the producer alone
Init == InitOf({NoFec, Fec(TRUE, TRUE)})

Next ==
    \/ AppCall(Requests)
    \/ SendvCall
    \/ BuildStep
    \/ SendtoCall
    \/ Close

Spec == Init /\ [][Next]_vars

\* the requests of the application while repairs are served
NakRequests == { Req("send", << n >>, {}, FALSE) : n \in {1, 3} }

\* producer, receive thread and repair consumer
NextNak ==
    \/ AppCall(NakRequests)
    \/ BuildStep
    \/ SendtoCall
    \/ OnNak(Naks, MaxNaks)
    \/ OnNakPush
    \/ OnNakNotify

InitNak == InitOf(Configs)

SpecNak == InitNak /\ [][NextNak]_vars

\* the requests of the application while the heartbeat schedule is watched:
\* every entry point, one packet and several, blocking and non-blocking
\* The SPM path: the producer fills the window while the timer thread sends
\* SPMs and the receive thread handles SPMRs and N-NAKs.
SpmRequests == { Req("send", << n >>, {}, FALSE) : n \in {1, 3} }

\* the producer, waiting inside pgm_reset_heartbeat_spm, is granted the mutex
HeartbeatGranted ==
    /\ ~crashed
    /\ transport.hb_wait
    /\ MutexFree(World)
    /\ Commit(ResetHeartbeatLocked(World))
    /\ UNCHANGED << cfg, now >>

NextSpm ==
    \/ AppCall(SpmRequests)
    \/ BuildStep
    \/ SendtoCall
    \/ HeartbeatGranted
    \/ OnSpmr
    \/ OnSpmrSpm
    \/ TimerSpm
    \/ OnNnak

InitSpm == InitWith({NoFec}, {0, UINT32_MAX})

SpecSpm == InitSpm /\ [][NextSpm]_vars

\* The repair cycle: the producer fills and turns over the window while
\* several valid NAKs arrive and the repair consumer serves them.
RepRequests == { Req("send", << n >>, {}, FALSE) : n \in {1, 3} }

RepNaks ==
    { Nak(par, "none", << s >>) : par \in BOOLEAN, s \in NakSqns }
    \cup { Nak(FALSE, "none", << 1, 0 >>) }

NextRep ==
    \/ AppCall(RepRequests)
    \/ BuildStep
    \/ SendtoCall
    \/ OnNak(RepNaks, MaxRepNaks)
    \/ OnNakPush
    \/ OnNakNotify

InitRep == InitOf({NoFec, Fec(FALSE, TRUE)})

SpecRep == InitRep /\ [][NextRep]_vars

(***************************************************************************)
(* The retransmit queue from push to repair: the producer, NAKs and the    *)
(* repair consumer, each scheduled as long as it has something to do.      *)
(***************************************************************************)
DrainRequests == { Req("send", << n >>, {}, FALSE) : n \in {1, 3} }

DrainNaks ==
    { Nak(par, "none", << s >>) : par \in BOOLEAN, s \in {0, 1} }
    \cup { Nak(FALSE, "none", << 1, 0 >>) }

NextDrain ==
    \/ AppCall(DrainRequests)
    \/ BuildStep
    \/ SendtoCall
    \/ OnNak(DrainNaks, MaxNaks)
    \/ OnNakPush
    \/ OnNakNotify

InitDrain == InitOf({NoFec, Fec(TRUE, TRUE)})

\* the conditions under which BuildStep, SendtoCall, OnNakPush and OnNakNotify
\* can take a step
BuildEnabled ==
    ~crashed /\ ~transport.hb_wait /\ prod.pc = "build" /\ (prod.take_lock => ~txw_lock)

SendtoEnabled == ~crashed /\ ~transport.hb_wait /\ prod.pc = "sendto"

PushEnabled == ~crashed /\ recv.pc = "push"

NotifyEnabled == ~crashed /\ rdata_notify > 0 /\ ~txw_lock

\* the application calls again (and repeats a call that returned -1/EAGAIN),
\* the producer and the receive thread finish what they began, and the repair
\* consumer runs for every event pending in rdata_notify.  The last four
\* conjuncts are weak fairness of the step, WF_vars, written out with the
\* step's enabling condition
SpecDrain ==
    /\ InitDrain /\ [][NextDrain]_vars
    /\ WF_vars(AppCall(DrainRequests))
    /\ ([]<>~BuildEnabled \/ []<><<BuildStep>>_vars)
    /\ ([]<>~SendtoEnabled \/ []<><<SendtoCall>>_vars)
    /\ ([]<>~PushEnabled \/ []<><<OnNakPush>>_vars)
    /\ ([]<>~NotifyEnabled \/ []<><<OnNakNotify>>_vars)

(***************************************************************************)
(* The producer sending without blocking, and the two senders of SPMs.     *)
(***************************************************************************)
LockRequests ==
    { Req("send", << 1 >>, {}, FALSE), Req("send", << 3 >>, {"DONTWAIT"}, FALSE) }

NextLock ==
    \/ AppCall(LockRequests)
    \/ BuildStep
    \/ SendtoCall
    \/ HeartbeatGranted
    \/ OnSpmr
    \/ OnSpmrSpm
    \/ TimerSpm

InitLock == InitWith({NoFec}, {0})

SpecLock == InitLock /\ [][NextLock]_vars

(***************************************************************************)
(* pgm_transport_send alone, for every APDU length up to one more than the *)
(* window takes.                                                           *)
(***************************************************************************)
SendRequests ==
    { Req("send", << n >>, f, FALSE) :
        n \in 0 .. TxwSqns * MaxTsduFragment + 1, f \in FlagSets }

NextSend ==
    \/ AppCall(SendRequests)
    \/ BuildStep
    \/ SendtoCall

InitSend == InitOf({NoFec, Fec(TRUE, TRUE)})

SpecSend == InitSend /\ [][NextSend]_vars

(***************************************************************************)
(* pgm_transport_sendv with is_one_apdu set, for vectors that split the    *)
(* APDU in every way: elements that end on a fragment boundary, span one   *)
(* or two boundaries, and empty elements in front, between and behind.     *)
(***************************************************************************)
SendvVectors ==
    { << 3 >>, << 6 >>, << 2, 2 >>, << 2, 3 >>, << 1, 3, 1 >>, << 1, 5 >>,
      << 0, 3 >>, << 3, 0 >>, << 2, 0, 2 >>, << 1, 0, 0, 2 >>, << 0, 0, 5, 0 >>,
      << 1, 1, 1, 1, 1 >>, << 1, 1 >>, << 4, 3 >> }

SendvRequests ==
    { Req("sendv", vec, f, TRUE) : vec \in SendvVectors, f \in { {}, {"DONTWAIT"} } }

NextSendv ==
    \/ AppCall(SendvRequests)
    \/ BuildStep
    \/ SendtoCall

InitSendv == InitOf({NoFec})

SpecSendv == InitSendv /\ [][NextSendv]_vars

(***************************************************************************)
(* on_nak handed NAKs whose OPT_NAK_LIST option carries every length a      *)
(* byte can hold, and NAKs of either address family.                       *)
(***************************************************************************)
\* the largest value of the guint8 opt_length
OptLengthMax == 255

Afis == {"IP", "IP6"}

\* a selective NAK with PGM_OPT_PRESENT: the primary sequence number and the
\* words that follow the OPT_NAK_LIST header in the receive buffer
NakOpt(opt_length, src_afi, grp_afi) ==
    [Nak(FALSE, "none", << 0 >> \o [i \in 1 .. SqnListMax - 1 |-> i % 2])
        EXCEPT !.opt_present = TRUE, !.opt_length = opt_length,
               !.src_afi = src_afi, !.grp_afi = grp_afi]

ListNaks ==
    { NakOpt(l, SendAfi, SendAfi) : l \in 0 .. OptLengthMax }
    \cup { NakOpt(l, "IP6", "IP6") : l \in {4, 12, OptLengthMax} }
    \cup { [Nak(FALSE, "none", << 0 >>) EXCEPT !.src_afi = "IP6", !.grp_afi = "IP6"] }
    \cup { NakOpt(SizeofOptHeader + SizeofGuint8 + SizeofGuint32, s, g) :
              s \in Afis, g \in Afis }
    \cup { Nak(FALSE, "none", << 0 >>) }

\* the receive thread alone: the window is as pgm_txw_init left it
NextList ==
    \/ OnNak(ListNaks, MaxNaks)
    \/ OnNakPush

\* an IPv4 transport and an IPv6 transport
InitList == InitOf({NoFec, [NoFec EXCEPT !.afi = "IP6"]})

SpecList == InitList /\ [][NextList]_vars

(***************************************************************************)
(* The option walk of on_nak and on_nnak, one turn of the do-while loop    *)
(* per step.  opt_header is kept as its byte offset from OPT_LENGTH.       *)
(***************************************************************************)
\* an option that is neither OPT_NAK_LIST nor marked OPT_END, opt_length 0
OptZero == [opt_type |-> "OPT_OTHER", opt_end |-> FALSE, opt_length |-> 0]

\* the byte offset of option i of the packet, the options following OPT_LENGTH
\* one after the other
RECURSIVE OptStart(_, _)
OptStart(opts, i) ==
    IF i = 1 THEN SizeofOptLength
    ELSE OptStart(opts, i - 1) + opts[i - 1].opt_length

\* the first byte after the options of the packet
OptionsEnd(opts) == OptStart(opts, Len(opts) + 1)

\* the option header the packet holds at byte offset off
OptHeaderAt(opts, off) ==
    opts[CHOOSE i \in 1 .. Len(opts) :
            /\ OptStart(opts, i) = off
            /\ \A j \in 1 .. (i - 1) : OptStart(opts, j) # off]

\* on_nak and on_nnak up to the do-while loop, for a packet that passed every
\* check, has PGM_OPT_PRESENT set and a well-formed OPT_LENGTH
OptionWalkBegin(w, kind, opts) ==
    LET w1 == IF kind = "nak"
              THEN [w EXCEPT !.r.naks = @ + 1, !.r.is_parity = FALSE,
                             !.r.ncf_before = Len(w.ra), !.r.handler = "nak",
                             !.r.arg = NakOpt(0, cfg.afi, cfg.afi),
                             !.r.ncf_variant = "none",
                             !.t.stats.SOURCE_SELECTIVE_NAKS_RECEIVED = @ + 1]
              ELSE [w EXCEPT !.r.nnaks = @ + 1, !.r.handler = "nnak",
                             !.r.arg = [valid |-> TRUE, list_len |-> 0],
                             !.t.stats.SOURCE_SELECTIVE_NNAK_PACKETS_RECEIVED = @ + 1]
    IN [w1 EXCEPT !.r.pc = "walk", !.r.opts = opts, !.r.opt_off = 0]

\* the loop has ended: the rest of the handler; found: at an OPT_NAK_LIST of
\* opt_length bytes
OptionWalkEnd(w, found, opt_length, o) ==
    LET w1 == [w EXCEPT !.r.opts = << >>, !.r.opt_off = 0] IN
    IF w.r.handler = "nak"
    THEN OnNakList(w1, [w.r.arg EXCEPT !.opt_present = found,
                                       !.opt_length = opt_length], o)
    ELSE [w1 EXCEPT !.t.stats.SOURCE_SELECTIVE_NNAKS_RECEIVED =
                        @ + 1 + (IF found THEN NakListLen(opt_length) ELSE 0),
                    !.r.pc = "idle", !.r.retval = 0, !.r.returns = @ + 1]

\* one turn of the loop: opt_header moves on by the opt_length it points at,
\* then the option it reaches is tested.  Beyond the options of the packet the
\* header read is whatever the buffer holds; ub: the read faults ("crash"),
\* shows an option marked OPT_END ("end"), or shows zero bytes ("zero")
OptionWalkStep(w, ub, o) ==
    LET opts == w.r.opts
        off == w.r.opt_off
        here == IF off = 0 THEN SizeofOptLength
                ELSE IF off >= OptionsEnd(opts) THEN OptZero.opt_length
                ELSE OptHeaderAt(opts, off).opt_length
        next == off + here
    IN IF next >= OptionsEnd(opts)
       THEN IF off >= OptionsEnd(opts) THEN w
            ELSE IF ub = "crash" THEN Crash(w)
            ELSE IF ub = "end" THEN OptionWalkEnd(w, FALSE, 0, o)
            ELSE [w EXCEPT !.r.opt_off = next]
       ELSE LET opt_header == OptHeaderAt(opts, next) IN
            IF opt_header.opt_type = "OPT_NAK_LIST"
            THEN OptionWalkEnd(w, TRUE, opt_header.opt_length, o)
            ELSE IF opt_header.opt_end THEN OptionWalkEnd(w, FALSE, 0, o)
            ELSE [w EXCEPT !.r.opt_off = next]

\* the most options after OPT_LENGTH of a packet
MaxOpts == 3

\* the options a packet carries after OPT_LENGTH
WalkOptions ==
    UNION { [1 .. n -> { OptOther(FALSE), OptOther(TRUE), OptZero,
                         OptNakList(1, TRUE), OptNakList(2, FALSE) }] :
            n \in 0 .. MaxOpts }

\* on_nak: a NAK with options arrives
OnNakOptions ==
    /\ ~crashed
    /\ recv.pc = "idle"
    /\ recv.naks < MaxNaks
    /\ \E opts \in WalkOptions : Commit(OptionWalkBegin(World, "nak", opts))
    /\ UNCHANGED << cfg, now >>

\* on_nnak: an N-NAK with options arrives
OnNnakOptions ==
    /\ ~crashed
    /\ recv.pc = "idle"
    /\ recv.nnaks < MaxNnaks
    /\ \E opts \in WalkOptions : Commit(OptionWalkBegin(World, "nnak", opts))
    /\ UNCHANGED << cfg, now >>

\* the do-while loop of the handler takes one turn
OptionWalk ==
    /\ ~crashed
    /\ recv.pc = "walk"
    /\ \E ub \in {"crash", "end", "zero"}, o \in {"ok", "fail"} :
         /\ o = "ok" \/ recv.handler = "nak"
         /\ Commit(OptionWalkStep(World, ub, o))
    /\ UNCHANGED << cfg, now >>

NextWalk ==
    \/ OnNakOptions
    \/ OnNnakOptions
    \/ OptionWalk
    \/ OnNakPush

InitWalk == InitOf({NoFec})

SpecWalk == InitWalk /\ [][NextWalk]_vars

\* the receive thread is scheduled as long as its handler has not returned
SpecWalkFair == SpecWalk /\ WF_vars(OptionWalk) /\ WF_vars(OnNakPush)

HbRequests ==
    { Req("send", << 1 >>, {}, FALSE), Req("send", << 3 >>, {"DONTWAIT"}, FALSE),
      Req("sendv", << 1, 1 >>, {}, FALSE), Req("sendv", << 2, 3 >>, {}, TRUE),
      Req("skbv", << 1 >>, {}, FALSE), Req("skbv", << 2, 1 >>, {}, TRUE) }

\* producer and repair consumer of a transport sending proactive parity, and
\* the clock
NextHb ==
    \/ AppCall(HbRequests)
    \/ SendvCall
    \/ BuildStep
    \/ SendtoCall
    \/ OnNakNotify
    \/ Tick

InitHb == InitOf({Fec(TRUE, TRUE)})

SpecHb == InitHb /\ [][NextHb]_vars

(***************************************************************************)
(* The configuration setters, on a transport that is created and not yet   *)
(* bound.                                                                  *)
(***************************************************************************)
\* unsigned a / 2
Half32(a) == IF a >= 0 THEN a \div 2 ELSE ((a \div 2) + INT32_MAX) + 1

\* (UINT32_MAX/2)-1
TxwSqnsLimit == Half32(UINT32_MAX) - 1

\* g_return_val_if_fail (sqns < ((UINT32_MAX/2)-1), -EINVAL)
TxwSqnsInRange(sqns) == Less32(sqns, TxwSqnsLimit)

SetReq(shape, vec, len) ==
    [shape |-> shape, vec |-> vec, len |-> len, flags |-> {}, one_apdu |-> FALSE]

\* a setter returns ret to the application, the settings now being c
SetterReturns(req, c, ret) ==
    /\ cfg' = c
    /\ app' = [app EXCEPT !.req = req, !.orig = req, !.ret = ret, !.phase = "done"]
    /\ UNCHANGED << transport, st, txw, txw_lock, rdata_notify, timer_notify, prod,
                    recv, wire, ra_wire, odata_log, crashed, now,
                    timer, peer >>

pgm_transport_set_ambient_spm(spm_ambient_interval) ==
    LET req == SetReq("set_ambient_spm", << spm_ambient_interval >>, 1) IN
    IF cfg.is_bound THEN SetterReturns(req, cfg, RetEINVAL)
    ELSE IF ~Less32(0, spm_ambient_interval) THEN SetterReturns(req, cfg, RetEINVAL)
    ELSE SetterReturns(req, [cfg EXCEPT !.spm_ambient_interval = spm_ambient_interval], 0)

pgm_transport_set_heartbeat_spm(spm_heartbeat_interval, len, junk) ==
    LET req == SetReq("set_heartbeat_spm", spm_heartbeat_interval, len) IN
    IF cfg.is_bound THEN SetterReturns(req, cfg, RetEINVAL)
    ELSE IF ~(len > 0) THEN SetterReturns(req, cfg, RetEINVAL)
    ELSE IF \E i \in 1..len : ~Less32(0, spm_heartbeat_interval[i])
         THEN SetterReturns(req, cfg, RetEINVAL)
    ELSE SetterReturns(req, [cfg EXCEPT !.spm_heartbeat_interval =
                                 StoredHeartbeat(spm_heartbeat_interval, len, junk)], 0)

pgm_transport_set_txw_preallocate(sqns) ==
    LET req == SetReq("set_txw_preallocate", << sqns >>, 1) IN
    IF cfg.is_bound THEN SetterReturns(req, cfg, RetEINVAL)
    ELSE IF ~Less32(0, sqns) THEN SetterReturns(req, cfg, RetEINVAL)
    ELSE SetterReturns(req, [cfg EXCEPT !.txw_preallocate = sqns], 0)

pgm_transport_set_txw_sqns(sqns) ==
    LET req == SetReq("set_txw_sqns", << sqns >>, 1) IN
    IF cfg.is_bound THEN SetterReturns(req, cfg, RetEINVAL)
    ELSE IF ~TxwSqnsInRange(sqns) THEN SetterReturns(req, cfg, RetEINVAL)
    ELSE IF ~Less32(0, sqns) THEN SetterReturns(req, cfg, RetEINVAL)
    ELSE SetterReturns(req, [cfg EXCEPT !.txw_sqns = sqns], 0)

\* a setter that stores its value without looking at is_bound
SetTxwSecsWhenBound(secs) ==
    LET req == SetReq("set_txw_secs", << secs >>, 1) IN
    IF ~Less32(0, secs) THEN SetterReturns(req, cfg, RetEINVAL)
    ELSE SetterReturns(req, [cfg EXCEPT !.txw_secs = secs], 0)

pgm_transport_set_txw_secs(secs) ==
    LET req == SetReq("set_txw_secs", << secs >>, 1) IN
    IF cfg.is_bound THEN SetterReturns(req, cfg, RetEINVAL)
    ELSE IF ~Less32(0, secs) THEN SetterReturns(req, cfg, RetEINVAL)
    ELSE SetterReturns(req, [cfg EXCEPT !.txw_secs = secs], 0)

pgm_transport_set_txw_max_rte(max_rte) ==
    LET req == SetReq("set_txw_max_rte", << max_rte >>, 1) IN
    IF cfg.is_bound THEN SetterReturns(req, cfg, RetEINVAL)
    ELSE IF ~Less32(0, max_rte) THEN SetterReturns(req, cfg, RetEINVAL)
    ELSE SetterReturns(req, [cfg EXCEPT !.txw_max_rte = max_rte], 0)

\* guint arguments: zero, one and the largest value
Guints == {0, 1, UINT32_MAX}

\* guint arguments around the limit of the window size:
\* 0, 1, 2^31 - 3, 2^31 - 2, 2^31 - 1, 2^31 and 2^32 - 1
TxwSqnsArgs == {0, 1, INT32_MAX - 2, INT32_MAX - 1, INT32_MAX, INT32_MIN, UINT32_MAX}

\* heartbeat arrays handed to the setter
HeartbeatArgs == { << 2 >>, << 2, 4 >>, << 0 >>, << 2, 0 >> }

\* what the unassigned slot of a g_malloc'ed array may hold
JunkGuints == {0, 7}

SetAmbientSpm == \E v \in Guints : pgm_transport_set_ambient_spm(v)

SetHeartbeatSpm ==
    \E a \in HeartbeatArgs, len \in {0 - 1, 0, 1, 2}, junk \in JunkGuints :
        /\ len <= Len(a)
        /\ pgm_transport_set_heartbeat_spm(a, len, junk)

SetTxwPreallocate == \E v \in Guints : pgm_transport_set_txw_preallocate(v)

SetTxwSqns == \E v \in TxwSqnsArgs : pgm_transport_set_txw_sqns(v)

SetTxwSecs == \E v \in Guints : pgm_transport_set_txw_secs(v)

SetTxwMaxRte == \E v \in Guints : pgm_transport_set_txw_max_rte(v)

\* pgm_transport_bind: the settings are frozen
Bind ==
    /\ ~cfg.is_bound
    /\ cfg' = [cfg EXCEPT !.is_bound = TRUE]
    /\ UNCHANGED << transport, st, txw, txw_lock, rdata_notify, timer_notify, prod,
                    app, recv, wire, ra_wire, odata_log, crashed, now,
                    timer, peer >>

\* a transport as pgm_transport_create leaves it
Created ==
    [NoFec EXCEPT !.is_bound = FALSE, !.spm_ambient_interval = 0,
                  !.spm_heartbeat_interval = << >>, !.txw_sqns = 0]

InitCfg == InitOf({Created})

NextCfg ==
    \/ SetAmbientSpm
    \/ SetHeartbeatSpm
    \/ SetTxwPreallocate
    \/ SetTxwSqns
    \/ SetTxwSecs
    \/ SetTxwMaxRte
    \/ Bind

SpecCfg == InitCfg /\ [][NextCfg]_vars

(***************************************************************************)
(* Properties of the send path (Spec).                                     *)
(***************************************************************************)
\* the packets the current request appended to the window and offered to the socket
CallLog == SubSeq(odata_log, app.log_start + 1, Len(odata_log))
CallWire == SubSeq(wire, app.wire_start + 1, Len(wire))

\* the current request has returned for good
CallDone == prod.pc = "idle" /\ app.phase = "done" /\ ~crashed

\* the application bytes of the current request, as the application handed them in
RequestBytes == SumSeq(app.orig.vec)

RECURSIVE ElementBytes(_, _)
ElementBytes(vec, e) ==
    IF e > Len(vec) THEN << >> ELSE Bytes(e, 0, vec[e]) \o ElementBytes(vec, e + 1)

RECURSIVE Payloads(_)
Payloads(log) == IF log = << >> THEN << >> ELSE Head(log).payload \o Payloads(Tail(log))

BlockedInCall == \E i \in 1..Len(CallWire) : CallWire[i].res = "eagain"
FailedInCall == \E i \in 1..Len(CallWire) : CallWire[i].res = "fail"

\* the last call was turned away because the transport is closed
TurnedAway == app.ret = 0 - 1 /\ app.errno = ECONNRESET

\* C1: the data_sqn of every ODATA appended to the transmit window is exactly
\* one more, modulo 2^32, than the data_sqn of the ODATA appended before it,
\* whatever send functions appended them and whether or not a call was blocked
\* by EAGAIN and resumed; the window's lead is the last data_sqn.
C1_DataSqnNoGaps ==
    /\ \A i \in 2..Len(odata_log) : odata_log[i].sqn = Add32(odata_log[i - 1].sqn, 1)
    /\ odata_log # << >> => /\ odata_log[1].sqn = 0
                            /\ pgm_txw_lead(txw) = odata_log[Len(odata_log)].sqn

\* C1 witness: two requests, one of them blocked and resumed, have appended
\* more packets than the window holds
C1_Witness ==
    /\ CallDone
    /\ app.calls = 2
    /\ app.ret > 0
    /\ \E i \in 1..Len(wire) : wire[i].res = "eagain"
    /\ Len(odata_log) > TxwSqns
    /\ pgm_txw_trail(txw) # 0

\* C5: every fragment of an APDU carries the data_sqn of the APDU's first
\* fragment and the APDU's length, its frag_off is the sum of the TSDU lengths
\* of the fragments before it (0 for the first), and the fragments of a
\* completed APDU add up to apdu_length.
C5_FragmentOffsets ==
    /\ \A i \in 1..Len(odata_log) :
         LET p == odata_log[i]
             k == Sub32(p.sqn, p.frag.opt_sqn)
         IN p.opt_present =>
              /\ 0 <= k /\ k < i
              /\ \A j \in (i - k)..i :
                   /\ odata_log[j].opt_present
                   /\ odata_log[j].frag.opt_sqn = p.frag.opt_sqn
                   /\ odata_log[j].frag.opt_frag_len = p.frag.opt_frag_len
              /\ p.frag.opt_frag_off =
                   SumSeq([j \in 1..k |-> odata_log[i - k + j - 1].tsdu_length])
              /\ p.frag.opt_frag_off + p.tsdu_length <= p.frag.opt_frag_len
    /\ (CallDone /\ app.ret > 0 /\ CallLog # << >>) =>
         LET p == CallLog[Len(CallLog)] IN
         p.opt_present => p.frag.opt_frag_off + p.tsdu_length = p.frag.opt_frag_len

\* C6: a request whose packets went into the transmit window returns the full
\* number of application bytes also when pgm_sendto failed or wrote short
\* (other than EAGAIN) for some of them.
C6_FailureSwallowed ==
    (CallDone /\ CallLog # << >> /\ FailedInCall /\ ~BlockedInCall /\ ~app.resumed)
        => app.ret = RequestBytes

\* C7: a request that was blocked by EAGAIN and repeated with the same
\* arguments until it returned has appended each of its TPDUs once and in
\* order, has offered the blocked packet first on every resume, and returns
\* the total application bytes of the request.
C7_ResumeAfterEagain ==
    /\ \A i \in 1..Len(CallWire) :
         (CallWire[i].res = "eagain" /\ i < Len(CallWire))
            => CallWire[i + 1].sqn = CallWire[i].sqn
    /\ (CallDone /\ BlockedInCall /\ ~TurnedAway) =>
         /\ Payloads(CallLog) = ElementBytes(app.orig.vec, 1)
         /\ app.ret = RequestBytes

\* C8: a send call on a transport that is not open returns -1 with
\* ECONNRESET and leaves the window, the sockets, the counters, the heartbeat
\* schedule, the locks and the resume state as they were.
C8_ClosedChangesNothing ==
    [][(~transport.is_open /\ prod.pc = "idle" /\ app' # app) =>
         /\ app'.ret = 0 - 1
         /\ app'.errno = ECONNRESET
         /\ prod' = IdleProd
         /\ UNCHANGED << transport, st, txw, txw_lock, rdata_notify, timer_notify,
                         wire, ra_wire, odata_log >>]_vars

\* C8 witness: packets were sent, the transport was closed, and a send call
\* came back with ECONNRESET
C8_Witness ==
    /\ ~transport.is_open
    /\ CallDone
    /\ app.ret = 0 - 1
    /\ app.errno = ECONNRESET
    /\ app.calls = 2
    /\ odata_log # << >>

(***************************************************************************)
(* Properties of NAK processing and repair (SpecNak).                      *)
(***************************************************************************)
\* the transmission group of a sequence number
TgSqn(sqn) == BitAnd(sqn, TgSqnMask(cfg.tg_sqn_shift))

\* the repair r answers a request for sqn: the packet itself for a selective
\* repair, a parity packet of the packet's transmission group for a parity one
RepairFor(r, sqn, is_parity) ==
    /\ r.type = "RDATA"
    /\ r.parity = is_parity
    /\ IF is_parity THEN TgSqn(r.sqn) = TgSqn(sqn) ELSE r.sqn = sqn

\* the NCF n confirms a request for the packet the repair r carries
Confirms(n, r) ==
    /\ n.type = "NCF"
    /\ n.parity = r.parity
    /\ \E k \in 1..(Len(n.list) + 1) :
         RepairFor(r, (<< n.sqn >> \o n.list)[k], r.parity)

\* the receive thread enters on_nak in this step
NakArrives == recv'.naks = recv.naks + 1

\* the repair consumer serves the head of the retransmit queue in this step
HeadServed == rdata_notify' < rdata_notify /\ txw.rq # << >> /\ ~crashed'

\* C2: an accepted NAK is answered by exactly one NCF inside the on_nak call
\* (a rejected one by none, the queueing loop sends nothing), and whenever
\* on_nak_notify removes the head of the retransmit queue it has handed
\* exactly one RDATA for that entry to the socket.
C2_OneNcfOneRdata ==
    [][/\ NakArrives =>
            IF recv'.accepted
            THEN /\ Len(ra_wire') = Len(ra_wire) + 1
                 /\ SubSeq(ra_wire', 1, Len(ra_wire)) = ra_wire
                 /\ ra_wire'[Len(ra_wire')].type = "NCF"
                 /\ ra_wire'[Len(ra_wire')].sqn = recv'.sqn_list[1]
                 /\ ra_wire'[Len(ra_wire')].list = Tail(recv'.sqn_list)
            ELSE ra_wire' = ra_wire
       /\ (recv.pc = "push" /\ recv' # recv) => ra_wire' = ra_wire
       /\ HeadServed =>
            /\ txw'.rq = Tail(txw.rq)
            /\ Len(ra_wire') = Len(ra_wire) + 1
            /\ SubSeq(ra_wire', 1, Len(ra_wire)) = ra_wire
            /\ RepairFor(ra_wire'[Len(ra_wire')], Head(txw.rq).sqn, Head(txw.rq).is_parity)
       /\ (txw.rq # << >> /\ txw'.rq = Tail(txw.rq) /\ ~HeadServed)
            => ~TxwHas(txw', Head(txw.rq).key)]_vars

\* C2 witness: a NAK for a packet of the window was accepted, confirmed once
\* and repaired once, and the retransmit queue is empty again
C2_Witness ==
    /\ recv.accepted /\ recv.pc = "idle"
    /\ txw.rq = << >>
    /\ ~crashed
    /\ Len(ra_wire) = 2
    /\ ra_wire[1].type = "NCF" /\ ~ra_wire[1].parity
    /\ RepairFor(ra_wire[2], ra_wire[1].sqn, FALSE)
    /\ TxwHas(txw, ra_wire[1].sqn)

\* repairs that a NAK asked for: every selective one, and every parity one of a
\* transport that sends no parity of its own accord
NakRepair(r) == r.type = "RDATA" /\ (r.parity => ~cfg.use_proactive_parity)

\* C3: every repair a NAK asked for was handed to the socket after an NCF
\* confirming that packet had been handed to the socket, however the receive
\* thread and the repair consumer interleave.
C3_NcfBeforeRdata ==
    \A j \in 1..Len(ra_wire) :
        NakRepair(ra_wire[j]) =>
            \E i \in 1..(j - 1) : Confirms(ra_wire[i], ra_wire[j])

\* C3 witness: the NAK list 1, 0 was confirmed and both packets were repaired
\* while the receive thread and the repair consumer ran side by side
C3_Witness ==
    /\ Len(ra_wire) = 3
    /\ ra_wire[1].type = "NCF" /\ ra_wire[1].list # << >>
    /\ NakRepair(ra_wire[2]) /\ NakRepair(ra_wire[3])
    /\ ~ra_wire[2].parity
    /\ ra_wire[2].sqn # ra_wire[3].sqn
    /\ recv.pc = "idle"

\* C4: the NCF on_nak sends, single or list, carries OPT_PARITY exactly when
\* the NAK it answers does.
C4_NcfParityOfNak ==
    [][(NakArrives /\ recv'.accepted) =>
          /\ ra_wire'[Len(ra_wire')].type = "NCF"
          /\ ra_wire'[Len(ra_wire')].parity = recv'.is_parity]_vars

\* C4 witness: a parity NAK with a list was answered by an NCF with OPT_PARITY
C4_Witness ==
    /\ recv.accepted /\ recv.is_parity /\ Len(recv.sqn_list) > 1
    /\ \E i \in 1..Len(ra_wire) :
          ra_wire[i].type = "NCF" /\ ra_wire[i].parity /\ ra_wire[i].list # << >>

(***************************************************************************)
(* Properties of the configuration setters (SpecCfg).                      *)
(***************************************************************************)
\* the step is a call of a setter, which app' then describes
SetterCalled == cfg'.is_bound = cfg.is_bound

\* the field of the settings each setter configures
SetterField(shape) ==
    CASE shape = "set_ambient_spm" -> "spm_ambient_interval"
      [] shape = "set_heartbeat_spm" -> "spm_heartbeat_interval"
      [] shape = "set_txw_preallocate" -> "txw_preallocate"
      [] shape = "set_txw_sqns" -> "txw_sqns"
      [] shape = "set_txw_secs" -> "txw_secs"
      [] shape = "set_txw_max_rte" -> "txw_max_rte"

\* the value handed to the setter is zero; for the heartbeat schedule, len is
\* not positive or one of the len intervals is zero
ZeroValue(req) ==
    IF req.shape = "set_heartbeat_spm"
    THEN ~(req.len > 0) \/ \E i \in 1..req.len : req.vec[i] = 0
    ELSE req.vec[1] = 0

\* the setter refused: InvalidArgument and no setting changed
SetterRefused == app'.ret = RetEINVAL /\ cfg' = cfg

\* the setter returned 0 and changed the field it configures, and no other
SetterStored ==
    /\ app'.ret = 0
    /\ \A f \in DOMAIN cfg : f # SetterField(app'.req.shape) => cfg'[f] = cfg[f]
    /\ app'.req.shape # "set_heartbeat_spm"
          => cfg'[SetterField(app'.req.shape)] = app'.req.vec[1]

\* C9: a setter refuses when the transport is bound or the value is zero, and
\* otherwise returns 0 and changes only its own field.
C9_SettersAsStated ==
    [][SetterCalled =>
          IF cfg.is_bound \/ ZeroValue(app'.req) THEN SetterRefused
          ELSE SetterStored]_vars

\* a window size the setter of TXW sqns turns away as out of range: as a guint
\* it is 2^31 - 2 or more
TxwSqnsOutOfRange(req) ==
    /\ req.shape = "set_txw_sqns"
    /\ (req.vec[1] < 0 \/ req.vec[1] >= INT32_MAX - 1)

\* C9 (amended): a setter refuses when the transport is bound, the value is
\* zero or, for TXW sqns, the value is out of range (2^31 - 2 or more), and
\* otherwise returns 0 and changes only its own field.
C9_SettersRefuseZeroOrOutOfRange ==
    [][SetterCalled =>
          IF cfg.is_bound \/ ZeroValue(app'.req) \/ TxwSqnsOutOfRange(app'.req)
          THEN SetterRefused
          ELSE SetterStored]_vars

\* C9 witness: after bind the settings are those stored before, among them a
\* heartbeat schedule and a window size, and the last call, a setter handed a
\* non-zero value, was refused
C9_Witness ==
    /\ cfg.is_bound
    /\ cfg.txw_sqns = INT32_MAX - 2
    /\ cfg.spm_heartbeat_interval # << >>
    /\ cfg.txw_secs = 1
    /\ app.phase = "done" /\ app.ret = RetEINVAL
    /\ app.req.shape = "set_txw_secs" /\ app.req.vec[1] # 0

\* C10: on an unbound transport the setter of TXW sqns stores exactly the
\* values with 0 < sqns < 2^31 - 1 and refuses every other one.
C10_TxwSqnsRange ==
    [][(SetterCalled /\ ~cfg.is_bound /\ app'.req.shape = "set_txw_sqns") =>
          IF 0 < app'.req.vec[1] /\ app'.req.vec[1] < INT32_MAX
          THEN app'.ret = 0 /\ cfg'.txw_sqns = app'.req.vec[1]
          ELSE SetterRefused]_vars

\* C11: after the heartbeat setter succeeds with len intervals the stored
\* schedule is 0, the len intervals in order, 0.
C11_HeartbeatStored ==
    (app.phase = "done" /\ app.req.shape = "set_heartbeat_spm" /\ app.ret = 0) =>
        cfg.spm_heartbeat_interval =
            << 0 >> \o SubSeq(app.req.vec, 1, app.req.len) \o << 0 >>

(***************************************************************************)
(* Properties of the heartbeat schedule (SpecHb).                          *)
(***************************************************************************)
\* a send call returns its byte count to the application in this step
SendSucceeds ==
    /\ prod.pc # "idle" /\ prod'.pc = "idle"
    /\ app'.phase = "done" /\ app'.ret >= 0
    /\ ~crashed'

\* an RDATA is handed to the socket in this step
RdataSent ==
    /\ Len(ra_wire') = Len(ra_wire) + 1
    /\ ra_wire'[Len(ra_wire')].type = "RDATA"

\* the heartbeat schedule was restarted at the present time
HeartbeatRestarted ==
    /\ transport.spm_heartbeat_state = 2
    /\ transport.next_heartbeat_spm = now + cfg.spm_heartbeat_interval[2]

\* C12: when a send call returns successfully, and when an RDATA has been handed
\* to the socket, next_heartbeat_spm is the present time plus slot 1 of the
\* schedule and the schedule index is 2.
C12_HeartbeatRestarted ==
    [][(SendSucceeds \/ RdataSent) => HeartbeatRestarted']_vars

\* C12 witness: the clock has advanced, a call blocked by EAGAIN was resumed and
\* returned its bytes, a repair went out, and the schedule restarts from now
C12_Witness ==
    /\ now = MaxNow
    /\ CallDone /\ app.ret > 0 /\ app.resumed
    /\ \E i \in 1..Len(ra_wire) : ra_wire[i].type = "RDATA"
    /\ HeartbeatRestarted
    /\ transport.next_heartbeat_spm > cfg.spm_heartbeat_interval[2]

(***************************************************************************)
(* Claims on SPMs, SPMRs and N-NAKs.                                       *)
(***************************************************************************)
\* the SPMs handed to the router alert socket, in the order of emission
SpmsSent == SelectSeq(ra_wire, LAMBDA p : p.type = "SPM")

\* C13: the spm_sqn of the SPMs handed to the socket is strictly increasing
\* modulo 2^32 in the order of emission, however the timer thread and the
\* receive thread answering an SPMR interleave; no two SPMs carry the same
\* spm_sqn.  Increasing modulo 2^32: the later less the earlier, as a
\* 32 bit difference, is positive.
C13_SpmSqnIncreasing ==
    \A i, j \in 1..Len(SpmsSent) :
        i < j => /\ Sub32(SpmsSent[j].sqn, SpmsSent[i].sqn) > 0
                 /\ SpmsSent[i].sqn # SpmsSent[j].sqn

\* C13 witness: the timer thread and the receive thread each sent an SPM, the
\* receive thread having entered send_spm while the timer thread held the
\* mutex, and spm_sqn wrapped from 2^32 - 1 to 0 between the two
C13_Witness ==
    /\ Len(SpmsSent) = 2
    /\ SpmsSent[1].by = "timer" /\ SpmsSent[2].by = "recv"
    /\ SpmsSent[1].sqn = UINT32_MAX /\ SpmsSent[2].sqn = 0
    /\ recv.win # << pgm_txw_trail(txw), pgm_txw_lead(txw) >>

\* the receive thread enters on_spmr in this step
SpmrArrives == recv'.spmrs = recv.spmrs + 1

\* the receive thread takes a step inside the send_spm of on_spmr
SpmrSendsSpm == recv.handler = "spmr" /\ recv.pc # "idle" /\ recv' # recv

\* a is not after b, as sequence numbers modulo 2^32
NotAfter32(a, b) == Sub32(b, a) >= 0

NnakArrives == recv'.nnaks = recv.nnaks + 1

OdataOut ==
    /\ Len(wire') = Len(wire) + 1
    /\ wire'[Len(wire')].type = "ODATA"
    /\ wire'[Len(wire')].res # "eagain"

\* the ODATA with sequence number data_sqn is the last of its transmission group
LastOfGroup(data_sqn) ==
    BitAnd(Add32(data_sqn, 1), TgSqnUnmask(cfg.tg_sqn_shift)) = 0

\* the retransmit queue gained exactly the proactive parity request for the
\* group of data_sqn in this step
ParityRequestPushed(data_sqn) ==
    /\ Len(txw'.rq) = Len(txw.rq) + 1
    /\ SubSeq(txw'.rq, 1, Len(txw.rq)) = txw.rq
    /\ LET e == txw'.rq[Len(txw'.rq)]
           tg_sqn == BitAnd(data_sqn, TgSqnMask(cfg.tg_sqn_shift))
       IN /\ e.is_parity
          /\ e.sqn = BitOr(tg_sqn, cfg.rs_proactive_h)

\* pgm_notify_send was called once on the repair consumer's channel in this
\* step: one more wake is pending, or one more write has failed
NotifiedOnce ==
    \/ /\ rdata_notify' = rdata_notify + 1
       /\ transport'.notify_failed = transport.notify_failed
    \/ /\ rdata_notify' = rdata_notify
       /\ transport'.notify_failed = transport.notify_failed + 1

\* no request joined the retransmit queue and nobody was notified in this step
NothingScheduled ==
    /\ \A i \in 1..Len(txw'.rq) : \E j \in 1..Len(txw.rq) : txw'.rq[i] = txw.rq[j]
    /\ rdata_notify' = rdata_notify
    /\ transport'.notify_failed = transport.notify_failed

\* C16: with use_proactive_parity set, the step in which pgm_sendto takes the
\* last ODATA of a transmission group, at once or after EAGAIN and a repeated
\* call, pushes the request (tg_sqn | rs_proactive_h, parity) and writes one
\* notification to the repair consumer; no other step of the producer pushes
\* or notifies, and with use_proactive_parity clear none does.  Violated: a
\* pgm_transport_sendv turned away by the rate check inside its second
\* pgm_transport_send sends the last ODATA of the group again when it is
\* repeated, and schedules the group's parity a second time.
C16_ProactiveParity ==
    [][IF OdataOut /\ cfg.use_proactive_parity /\ LastOfGroup(wire'[Len(wire')].sqn)
       THEN ParityRequestPushed(wire'[Len(wire')].sqn) /\ NotifiedOnce
       ELSE NothingScheduled]_vars

(***************************************************************************)
(* Claims on rejected NAKs and the value on_nak returns.                   *)
(***************************************************************************)
\* the counter of NAKs received that goes with the OPT_PARITY bit
NaksReceived(is_parity) ==
    IF is_parity THEN "SOURCE_PARITY_NAKS_RECEIVED" ELSE "SOURCE_SELECTIVE_NAKS_RECEIVED"

\* C17: a NAK that on_nak rejects changes counters only: no packet is handed
\* to either socket, the window and its retransmit queue stay as they are,
\* nobody is notified; SOURCE_MALFORMED_NAKS and SOURCE_PACKETS_DISCARDED go
\* up by one each and so does the one of SOURCE_PARITY_NAKS_RECEIVED and
\* SOURCE_SELECTIVE_NAKS_RECEIVED that goes with the NAK's OPT_PARITY bit.
C17_RejectedNak ==
    [][(NakArrives /\ ~recv'.accepted) =>
         /\ ra_wire' = ra_wire /\ wire' = wire
         /\ txw' = txw
         /\ rdata_notify' = rdata_notify /\ timer_notify' = timer_notify
         /\ recv'.pc = "idle" /\ recv'.returns = recv.returns + 1
         /\ transport' =
              [transport EXCEPT
                 !.stats = [@ EXCEPT !.SOURCE_MALFORMED_NAKS = @ + 1,
                                     !.SOURCE_PACKETS_DISCARDED = @ + 1,
                                     ![NaksReceived(recv'.is_parity)] = @ + 1]]]_vars

\* C17 witness: a parity NAK was turned away by a transport without on-demand
\* parity while packets were in the window
C17_Witness ==
    /\ ~cfg.use_ondemand_parity
    /\ recv.naks = 1 /\ recv.returns = 1 /\ ~recv.accepted /\ recv.is_parity
    /\ transport.stats.SOURCE_MALFORMED_NAKS = 1
    /\ transport.stats.SOURCE_PACKETS_DISCARDED = 1
    /\ transport.stats.SOURCE_PARITY_NAKS_RECEIVED = 1
    /\ transport.stats.SOURCE_SELECTIVE_NAKS_RECEIVED = 0
    /\ txw.skbs # << >> /\ txw.rq = << >> /\ ra_wire = << >>

\* on_nak returns in this step
OnNakReturns == recv'.naks > 0 /\ recv'.returns = recv.returns + 1

\* C18: on_nak returns 0 or -EINVAL and nothing else: -EINVAL for every NAK
\* counted as malformed and discarded, 0 for an accepted NAK unless a write
\* to the notification channel failed.  Violated: for a parity NAK on a
\* transport without on-demand parity on_nak returns a value it never
\* assigned.
C18_OnNakReturnValue ==
    [][OnNakReturns =>
         /\ recv'.retval \in {0, RetEINVAL}
         /\ ~recv'.accepted => recv'.retval = RetEINVAL
         /\ (recv'.accepted /\ recv'.retval = RetEINVAL)
              => transport'.notify_failed > 0]_vars

(***************************************************************************)
(* Claims on the rate check of non-blocking sends.                         *)
(***************************************************************************)
\* the application's call of a send function has returned
Returned == prod.pc = "idle" /\ app.phase \in {"done", "again"} /\ ~crashed

\* how often the current call has consulted the rate controller: by
\* pgm_rate_check and by handing a packet to a rate limited pgm_sendto
RateConsulted == app.rate_checks + app.rate_sends

\* the current call came back with -1 and EAGAIN and found no socket blocked:
\* the rate check turned it away
RateRefused ==
    /\ Returned /\ app.ret = 0 - 1 /\ app.errno = EAGAIN
    /\ \A i \in (app.entry_wire + 1)..Len(wire) : wire[i].res # "eagain"

\* C19: a send call with DONTWAIT and WAITALL consults the rate controller
\* once: never more than once, once when it was entered afresh and
\* succeeded, and a call the rate check turned away has appended nothing to
\* the window and handed nothing to the socket.  Violated by
\* pgm_transport_sendv with is_one_apdu false.
C19_RateCheckedOnce ==
    (BothFlags(app.req.flags) /\ app.phase # "none" /\ app.req.shape \in {"send", "sendv", "skbv"}) =>
        /\ RateConsulted <= 1
        /\ (Returned /\ ~app.entry_eagain /\ app.ret >= 0) => RateConsulted = 1
        /\ RateRefused => (Len(odata_log) = app.entry_log /\ Len(wire) = app.entry_wire)

(***************************************************************************)
(* Claims on requests that are too long.                                   *)
(***************************************************************************)
\* the request is longer than the window can hold as one APDU, or one of its
\* packets is longer than a packet can be
TooLong(req) ==
    CASE req.shape = "send" -> req.vec[1] > TxwSqns * MaxTsduFragment
      [] req.shape = "sendv" -> SumSeq(req.vec) > TxwSqns * MaxTsduFragment
      [] req.shape = "skbv" ->
            IF Len(req.vec) = 1 THEN req.vec[1] > MaxTsdu
            ELSE req.one_apdu /\ \E i \in 1..Len(req.vec) : req.vec[i] > MaxTsduFragment
      [] OTHER -> FALSE

\* C20: a request that is too long returns -EMSGSIZE and has done nothing
\* else: nothing was appended to the window or handed to the socket, the rate
\* controller was not consulted, the call holds no lock and the resume
\* state is what it was when the call was made.  Violated by
\* pgm_transport_send_skbv, which returns with the writer lock held, and by
\* pgm_transport_sendv, which has overwritten STATE(apdu_length).
C20_TooLongNoEffect ==
    (Returned /\ app.phase = "done" /\ TooLong(app.orig) /\ ~app.entry_eagain
        /\ transport.is_open) =>
        /\ app.ret = RetEMSGSIZE
        /\ Len(odata_log) = app.entry_log /\ Len(wire) = app.entry_wire
        /\ RateConsulted = 0
        /\ txw_lock = app.entry_lock
        /\ st = app.entry_st


(***************************************************************************)
(* C21: every RDATA handed to the socket (a selective repair built from    *)
(* the cached payload checksum, a parity repair, a second or later repair  *)
(* of the same sequence number) carries in its checksum field the checksum *)
(* computed from scratch over the whole packet as it is sent.              *)
(***************************************************************************)
RdatasSent == { i \in DOMAIN ra_wire : ra_wire[i].type = "RDATA" }

OriginalOdata(sqn) ==
    odata_log[CHOOSE i \in DOMAIN odata_log : odata_log[i].sqn = sqn]

SameButTypeTrailChecksum(skb, odata) ==
    /\ skb.sport = odata.sport
    /\ skb.dport = odata.dport
    /\ skb.opt_present = odata.opt_present
    /\ skb.parity = odata.parity
    /\ skb.var_pktlen = odata.var_pktlen
    /\ skb.frag = odata.frag
    /\ skb.sqn = odata.sqn
    /\ skb.tsdu_length = odata.tsdu_length
    /\ skb.len = odata.len
    /\ skb.payload = odata.payload

C22_RepairKeepsPacket ==
    /\ \A i \in DOMAIN txw.skbs :
          SameButTypeTrailChecksum(txw.skbs[i], OriginalOdata(txw.skbs[i].sqn))
    /\ \A i \in RdatasSent :
          ~ra_wire[i].parity =>
              ra_wire[i].pkt.payload = OriginalOdata(ra_wire[i].sqn).payload

(***************************************************************************)
(* C23: the spm_trail and spm_lead of every SPM equal the trail and lead   *)
(* of the transmit window at the instant the SPM is handed to the socket:  *)
(* no ODATA is added to the window between the snapshot of                 *)
(* send_spm_unlocked and its pgm_sendto.                                   *)
(* Violated: the reader lock is released after the snapshot and before     *)
(* pgm_sendto, and the producer adds a packet in between.                  *)
(***************************************************************************)
\* an SPM is handed to the socket in this step
SpmHandedOver ==
    /\ Len(ra_wire') = Len(ra_wire) + 1
    /\ ra_wire'[Len(ra_wire')].type = "SPM"

C23_SpmTrailLeadAtSend ==
    [][SpmHandedOver =>
          /\ ra_wire'[Len(ra_wire')].trail = pgm_txw_trail(txw)
          /\ ra_wire'[Len(ra_wire')].lead = pgm_txw_lead(txw)]_vars

(***************************************************************************)
(* C24: a parity retransmit entry, scheduled by the producer or queued by  *)
(* on_nak for a parity NAK, is on the retransmit queue only once the last   *)
(* packet of its transmission group is in the transmit window, so that the *)
(* k packets tg_sqn .. tg_sqn + k - 1 are all there for the repair         *)
(* consumer.                                                               *)
(* Violated: on_nak queues a parity request for a group whose first packet *)
(* is in the window and whose last packet was not sent yet.                *)
(***************************************************************************)
C24_ParityAfterGroup ==
    \A i \in DOMAIN txw.rq :
        txw.rq[i].is_parity => GroupInWindow(txw, txw.rq[i].key)

(***************************************************************************)
(* C25: whenever the producer restarts the heartbeat schedule              *)
(* (pgm_reset_heartbeat_spm, which takes the transport mutex) it does not  *)
(* hold the writer lock of the transmit window, on the success path and on *)
(* the -1/EAGAIN path of every send function.                              *)
(* Violated: the blocked label of pgm_transport_send, _sendv and           *)
(* _send_skbv restarts the heartbeat schedule without releasing the lock.  *)
(***************************************************************************)
\* the producer restarts the heartbeat schedule in this step
ProducerResetsHeartbeat == transport'.hb_resets > transport.hb_resets /\ prod.pc = "sendto"

C25_HeartbeatOutsideLock ==
    [][ProducerResetsHeartbeat => transport'.hb_locked = transport.hb_locked]_vars

(***************************************************************************)
(* C26: every entry of the retransmit queue is filed under a sequence      *)
(* number inside [trail, lead] of the transmit window, in every state: a   *)
(* NAK for a sequence number outside the window adds no entry and wakes    *)
(* nobody, an entry leaves the queue with its packet when the producer     *)
(* advances the trail, and every RDATA is built from a packet the window   *)
(* holds when the repair is sent.                                          *)
(***************************************************************************)
\* on_nak handles the next sequence number of its list in this step
PushesRequest == recv.pc = "push" /\ recv' # recv

\* the sequence number on_nak is about to push, and what it is filed under
PushedKey == RqKey(recv.sqn_list[recv.i + 1], recv.is_parity, cfg.tg_sqn_shift)

\* the repair consumer hands an RDATA to the socket in this step
RdataHandedOver ==
    /\ Len(ra_wire') = Len(ra_wire) + 1
    /\ ra_wire'[Len(ra_wire')].type = "RDATA"

QueueInsideWindow(x) ==
    \A i \in DOMAIN x.rq :
        /\ TxwHas(x, x.rq[i].key)
        /\ Sub32(x.rq[i].key, pgm_txw_trail(x)) >= 0
        /\ Sub32(pgm_txw_lead(x), x.rq[i].key) >= 0

C26_QueueInsideWindow ==
    [][/\ QueueInsideWindow(txw')
       /\ (PushesRequest /\ ~TxwHas(txw, PushedKey)) =>
             /\ txw' = txw
             /\ rdata_notify' = rdata_notify
             /\ ra_wire' = ra_wire
       /\ RdataHandedOver =>
             LET r == ra_wire'[Len(ra_wire')]
                 key == RqKey(r.sqn, r.parity, cfg.tg_sqn_shift)
             IN /\ txw.rq # << >>
                /\ Head(txw.rq).key = key
                /\ TxwHas(txw, key)
                /\ ~r.parity => r.payload = pgm_txw_peek(txw, key).payload]_vars

\* C26 witness: a NAK for sequence number 0 was accepted and its request
\* queued and notified, the producer then advanced the trail past 0, the
\* request left the queue with the packet and no RDATA was sent for it
C26_Witness ==
    /\ recv.naks = 1 /\ recv.pc = "idle" /\ recv.accepted
    /\ recv.sqn_list = << 0 >> /\ ~recv.is_parity
    /\ rdata_notify = 1
    /\ pgm_txw_trail(txw) = 1
    /\ txw.rq = << >>
    /\ RdatasSent = {}

(***************************************************************************)
(* C27: duplicate requests are suppressed until the repair is sent.  The   *)
(* retransmit queue never holds two entries of the same kind for one       *)
(* sequence number; a NAK naming a sequence number that has a pending      *)
(* entry changes nothing and wakes nobody; the repair consumer sends       *)
(* exactly one RDATA for the entry at the head and removes it; a NAK for   *)
(* the same sequence number after that adds a new entry, which is served   *)
(* by a new RDATA.                                                         *)
(***************************************************************************)
\* a request of this kind is pending for the sequence number key
EntryFor(x, key, is_parity) ==
    \E i \in DOMAIN x.rq : x.rq[i].key = key /\ x.rq[i].is_parity = is_parity

NoDuplicateEntries(x) ==
    \A i, j \in DOMAIN x.rq :
        (x.rq[i].key = x.rq[j].key /\ x.rq[i].is_parity = x.rq[j].is_parity) => i = j

\* the repair consumer reads one event and serves the head of the queue
ServesRequest == rdata_notify' = rdata_notify - 1 /\ txw.rq # << >> /\ ~crashed'

C27_DuplicatesSuppressed ==
    [][/\ NoDuplicateEntries(txw')
       /\ (PushesRequest /\ TxwHas(txw, PushedKey)) =>
             IF EntryFor(txw, PushedKey, recv.is_parity)
             THEN txw' = txw /\ rdata_notify' = rdata_notify
             ELSE /\ Len(txw'.rq) = Len(txw.rq) + 1
                  /\ SubSeq(txw'.rq, 1, Len(txw.rq)) = txw.rq
                  /\ txw'.rq[Len(txw'.rq)].key = PushedKey
                  /\ txw'.rq[Len(txw'.rq)].is_parity = recv.is_parity
       /\ ServesRequest =>
             /\ RdataHandedOver
             /\ SubSeq(ra_wire', 1, Len(ra_wire)) = ra_wire
             /\ ra_wire'[Len(ra_wire')].parity = Head(txw.rq).is_parity
             /\ RqKey(ra_wire'[Len(ra_wire')].sqn, Head(txw.rq).is_parity,
                      cfg.tg_sqn_shift) = Head(txw.rq).key
             /\ txw'.rq = Tail(txw.rq)
       /\ RdataHandedOver => ServesRequest]_vars

\* C27 witness: two selective NAKs for sequence number 0 were confirmed before
\* the repair consumer ran; the second found the entry of the first pending,
\* one event was sent and read, one RDATA was sent and the queue is empty
C27_Witness ==
    /\ recv.naks = 2 /\ recv.pc = "idle"
    /\ Len(ra_wire) = 3
    /\ \A i \in 1..2 : /\ ra_wire[i].type = "NCF" /\ ra_wire[i].sqn = 0
                        /\ ra_wire[i].list = << >> /\ ~ra_wire[i].parity
    /\ ra_wire[3].type = "RDATA" /\ ra_wire[3].sqn = 0 /\ ~ra_wire[3].parity
    /\ txw.rq = << >>
    /\ pgm_txw_trail(txw) = 0
    /\ rdata_notify = 0

(***************************************************************************)
(* C28: one activation of the repair consumer drains the retransmit queue: *)
(* the queue is empty when on_nak_notify returns.                          *)
(* Violated: on_nak_notify peeks once and serves one request; a second     *)
(* request stays on the queue until the next event is read.                *)
(***************************************************************************)
\* on_nak_notify runs from its first line to its return in this step
OnNakNotifyReturns == rdata_notify' = rdata_notify - 1 /\ ~crashed'

C28_ActivationDrainsQueue ==
    [][OnNakNotifyReturns => txw'.rq = << >>]_vars

(***************************************************************************)
(* C29: for every NAK that passes validation and every value 0..255 of the *)
(* opt_length byte of its OPT_NAK_LIST option, the sequence list on_nak    *)
(* builds has between 1 and 63 entries: the primary sequence number plus   *)
(* (opt_length - 3 - 1) / 4 list entries, a count between 0 and 62.        *)
(* Violated: for opt_length 0..3 the unsigned subtraction wraps, the count *)
(* is UINT32_MAX and the copy loop runs past sqn_list.sqn[62].             *)
(***************************************************************************)
\* the NAK on_nak is handed in this step passes pgm_verify_nak, both address
\* comparisons and the OPT_LENGTH checks
ValidNakArrives ==
    /\ NakArrives
    /\ recv'.arg.fault = "none"
    /\ recv'.arg.src_afi = cfg.afi /\ recv'.arg.grp_afi = cfg.afi
    /\ ~(recv'.arg.parity /\ ~cfg.use_ondemand_parity)

C29_SqnListLength ==
    [][ValidNakArrives =>
         LET entries == IF recv'.arg.opt_present
                        THEN NakListLen(recv'.arg.opt_length) ELSE 0
         IN /\ ~crashed'
            /\ entries >= 0 /\ entries <= SqnListMax - 1
            /\ Len(recv'.sqn_list) = 1 + entries
            /\ Len(recv'.sqn_list) >= 1 /\ Len(recv'.sqn_list) <= SqnListMax]_vars

(***************************************************************************)
(* C30: on_nak calls send_ncf_list only when its preconditions hold: the   *)
(* sequence list has between 2 and 63 entries and the source NLA and the   *)
(* group NLA of the NAK have the same address family; an accepted NAK with *)
(* exactly one sequence number is confirmed by send_ncf; none of the three *)
(* assertions at the head of send_ncf_list fails.                          *)
(***************************************************************************)
C30_NcfListPreconditions ==
    [][NakArrives =>
         /\ recv'.ncf_variant # "assert"
         /\ recv'.ncf_variant = "list" =>
               /\ Len(recv'.sqn_list) >= 2 /\ Len(recv'.sqn_list) <= SqnListMax
               /\ recv'.arg.src_afi = recv'.arg.grp_afi
               /\ Len(ra_wire') = Len(ra_wire) + 1
               /\ ra_wire'[Len(ra_wire')].type = "NCF"
               /\ ra_wire'[Len(ra_wire')].list = Tail(recv'.sqn_list)
         /\ (recv'.accepted /\ Len(recv'.sqn_list) = 1) =>
               /\ recv'.ncf_variant = "single"
               /\ ra_wire'[Len(ra_wire')].type = "NCF"
               /\ ra_wire'[Len(ra_wire')].list = << >>]_vars

\* C30 witness: a NAK whose OPT_NAK_LIST has the largest opt_length was
\* confirmed by the list variant with all 63 sequence numbers, and the
\* queueing loop has run over every one of them
C30_Witness ==
    /\ recv.naks = 1 /\ recv.accepted /\ recv.pc = "idle" /\ ~crashed
    /\ recv.arg.opt_present /\ recv.arg.opt_length = OptLengthMax
    /\ recv.ncf_variant = "list"
    /\ Len(recv.sqn_list) = SqnListMax
    /\ Len(ra_wire) = 1 /\ ra_wire[1].type = "NCF"
    /\ Len(ra_wire[1].list) = SqnListMax - 1

(***************************************************************************)
(* C31: for one address family the NCF with a list is the single-SN NCF    *)
(* plus the option bytes: its length is the length send_ncf computes for   *)
(* that family plus OPT_LENGTH and the OPT_NAK_LIST option of len - 1      *)
(* sequence numbers; an IPv4 NCF holds the IPv4 body, an IPv6 NCF the IPv6 *)
(* body.                                                                   *)
(* Violated: send_ncf_list compares the socket address family with the NLA *)
(* constant AFI_IP6, whose value is that of AF_INET: the IPv4 packet gets  *)
(* the IPv6-sized body and the IPv6 packet the IPv4-sized one.             *)
(***************************************************************************)
\* on_nak confirms the NAK of this step with send_ncf_list
NcfListSent == NakArrives /\ recv'.ncf_variant \in {"list", "smashed"}

C31_NcfListLength ==
    [][NcfListSent =>
         LET afi == recv'.arg.src_afi
             len == Len(recv'.sqn_list)
             body == IF afi = "IP6" THEN SizeofPgmNak6 ELSE SizeofPgmNak
         IN /\ recv'.ncf_variant = "list"
            /\ recv'.tpdu_length = SendNcfLength(afi) + NcfOptionBytes(len)
            /\ recv'.tpdu_length = SizeofPgmHeader + body + NcfOptionBytes(len)]_vars

(***************************************************************************)
(* C32: pgm_transport_send sends an APDU of L bytes as one ODATA without   *)
(* OPT_FRAGMENT when L < max_tsdu, and otherwise as ceil(L /               *)
(* max_tsdu_fragment) ODATA of which every one but the last carries        *)
(* max_tsdu_fragment bytes and the last the remaining 1..max_tsdu_fragment *)
(* bytes; the TSDU lengths add up to L.                                    *)
(***************************************************************************)
\* pgm_transport_send has taken the whole APDU and returned its length
SendReturned ==
    /\ CallDone /\ app.calls > 0
    /\ app.orig.shape = "send"
    /\ app.ret = RequestBytes

C32_SendFragments ==
    SendReturned =>
      LET L == RequestBytes
          n == (L + MaxTsduFragment - 1) \div MaxTsduFragment
      IN IF L < MaxTsdu
         THEN /\ Len(CallLog) = 1
              /\ ~CallLog[1].opt_present
              /\ CallLog[1].tsdu_length = L
         ELSE /\ Len(CallLog) = n
              /\ \A i \in 1 .. n :
                   /\ CallLog[i].opt_present
                   /\ CallLog[i].tsdu_length =
                        IF i < n THEN MaxTsduFragment
                        ELSE L - (n - 1) * MaxTsduFragment
              /\ CallLog[n].tsdu_length >= 1
              /\ CallLog[n].tsdu_length <= MaxTsduFragment
              /\ SumSeq([i \in 1 .. n |-> CallLog[i].tsdu_length]) = L

\* C32 witness: an APDU of five bytes, blocked once by EAGAIN and repeated,
\* went out as fragments of two, two and one byte
C32_Witness ==
    /\ SendReturned /\ RequestBytes = 2 * MaxTsduFragment + 1
    /\ app.resumed
    /\ Len(CallLog) = 3
    /\ CallLog[3].tsdu_length = 1
    /\ CallLog[3].frag.opt_frag_off = 2 * MaxTsduFragment

(***************************************************************************)
(* C33: when pgm_reset_heartbeat_spm returns, next_poll is not later than  *)
(* next_heartbeat_spm; a wake-up is written to the timer notification      *)
(* channel exactly when next_poll was later than the new heartbeat         *)
(* deadline before the call, and then next_poll is that deadline;          *)
(* otherwise next_poll is unchanged.                                       *)
(***************************************************************************)
\* pgm_reset_heartbeat_spm runs in this step
HeartbeatReset == transport'.hb_resets = transport.hb_resets + 1

InsideWindow(x, sqn) ==
    /\ Sub32(sqn, pgm_txw_trail(x)) >= 0
    /\ Sub32(pgm_txw_lead(x), sqn) >= 0

C34_WindowInvariant ==
    odata_log # << >> =>
      LET span == Sub32(pgm_txw_lead(txw), pgm_txw_trail(txw))
      IN /\ span >= 0 /\ span < TxwSqns
         /\ Len(txw.skbs) = span + 1
         /\ \A k \in 1 .. Len(txw.skbs) :
              /\ txw.skbs[k].sqn = Add32(pgm_txw_trail(txw), k - 1)
              /\ InsideWindow(txw, txw.skbs[k].sqn)
         /\ \A i \in 1 .. Len(odata_log) :
              LET p == odata_log[i]
              IN IF InsideWindow(txw, p.sqn)
                 THEN /\ TxwHas(txw, p.sqn)
                      /\ pgm_txw_peek(txw, p.sqn).sqn = p.sqn
                      /\ pgm_txw_peek(txw, p.sqn).payload = p.payload
                      /\ pgm_txw_peek(txw, p.sqn).tsdu_length = p.tsdu_length
                 ELSE /\ ~TxwHas(txw, p.sqn)
                      /\ Sub32(p.sqn, pgm_txw_trail(txw)) < 0

\* C34 witness: two requests have appended one packet more than the window
\* holds; the first packet was evicted and the window is full
C34_Witness ==
    /\ CallDone
    /\ Len(odata_log) = TxwSqns + 1
    /\ pgm_txw_trail(txw) = 1 /\ pgm_txw_lead(txw) = TxwSqns
    /\ ~TxwHas(txw, 0)
    /\ \A q \in 1 .. TxwSqns : TxwHas(txw, q)

(***************************************************************************)
(* C35: pgm_transport_sendv with is_one_apdu set and an APDU that is       *)
(* fragmented: the payloads of the fragments, in data_sqn order, are the   *)
(* elements of the vector in index order, however the APDU is split over   *)
(* the elements; the copy never reads an element behind the last one while *)
(* bytes of the fragment remain, and vector_offset never exceeds the       *)
(* length of the current element.                                          *)
(***************************************************************************)
\* the request is a fragmented one-APDU sendv that has built a fragment
SendvFragmenting ==
    /\ app.calls > 0
    /\ app.orig.shape = "sendv" /\ app.orig.one_apdu
    /\ RequestBytes >= MaxTsdu
    /\ CallLog # << >>

C35_SendvGathers ==
    /\ ~crashed
    /\ SendvFragmenting =>
         LET vec == app.orig.vec
             sent == Payloads(CallLog)
         IN /\ Len(sent) <= RequestBytes
            /\ sent = SubSeq(ElementBytes(vec, 1), 1, Len(sent))
            /\ \A i \in 2 .. Len(CallLog) :
                 CallLog[i].sqn = Add32(CallLog[i - 1].sqn, 1)
            /\ st.vector_index <= Len(vec)
            /\ IF st.vector_index < Len(vec)
               THEN st.vector_offset <= vec[st.vector_index + 1]
               ELSE st.vector_offset = 0
            /\ (CallDone /\ app.ret = RequestBytes) => sent = ElementBytes(vec, 1)

\* C35 witness: the vector 1, 0, 0, 2 was blocked by EAGAIN, repeated, and
\* went out as two fragments, the first of them gathered over four elements
C35_Witness ==
    /\ SendvFragmenting /\ CallDone /\ app.ret = RequestBytes
    /\ app.orig.vec = << 1, 0, 0, 2 >>
    /\ app.resumed
    /\ Len(CallLog) = 2
    /\ CallLog[1].payload = << << 1, 1 >>, << 4, 1 >> >>
    /\ CallLog[2].payload = << << 4, 2 >> >>

(***************************************************************************)
(* C36: producer, timer thread and receive thread never deadlock: in no    *)
(* reachable state does one thread hold the transmit-window lock and wait  *)
(* for the transport mutex while another holds the transport mutex and     *)
(* waits for the transmit-window lock.                                     *)
(* Violated: a fragmented send blocked by EAGAIN after a fragment went out *)
(* calls pgm_reset_heartbeat_spm with the writer lock held, while send_spm *)
(* holds the mutex and asks for the reader lock.                           *)
(***************************************************************************)
\* the producer holds the writer lock and waits for transport->mutex
ProducerWaitsForMutex == transport.hb_wait /\ txw_lock /\ ~MutexFree(World)

\* a sender of SPMs holds transport->mutex and waits for the reader lock
SpmWaitsForWindow ==
    /\ txw_lock
    /\ \/ transport.mutex = "timer" /\ timer.pc = "spm_snap"
       \/ transport.mutex = "recv" /\ recv.pc = "spm_snap"

C36_NoDeadlock == ~(ProducerWaitsForMutex /\ SpmWaitsForWindow)

(***************************************************************************)
(* C37: whenever a send call has returned to the application, with         *)
(* success, with -1/EAGAIN or with a message-size error, the producer does *)
(* not hold the transmit-window writer lock, so the repair consumer and    *)
(* the SPM sender can take the reader lock between two send calls.         *)
(* Violated: the fragmenting functions return -1/EAGAIN from their blocked *)
(* label with the writer lock still held; the call that resumes releases   *)
(* it.                                                                     *)
(***************************************************************************)
\* the producer is back in the application after at least one call
BackInApplication ==
    /\ prod.pc = "idle" /\ ~crashed /\ ~transport.hb_wait
    /\ app.calls > 0

C37_LockFreeBetweenCalls == BackInApplication => ~txw_lock

(***************************************************************************)
(* C38: a selective repair does not depend on the FEC parameters: for      *)
(* every configuration, also one without forward error correction where    *)
(* rs_n equals rs_k, on_nak_notify sends the RDATA for a selective entry   *)
(* at the head of the retransmit queue and removes the entry, without      *)
(* reaching an undefined arithmetic operation.                             *)
(* Violated: rs_h %= rs_n - rs_k is evaluated for every entry, before the  *)
(* test of is_parity, and divides by zero when rs_n equals rs_k.           *)
(***************************************************************************)
\* on_nak_notify runs with a selective request at the head of the queue
SelectiveHeadTaken ==
    /\ rdata_notify' < rdata_notify
    /\ txw.rq # << >>
    /\ ~Head(txw.rq).is_parity

\* the RDATA on_nak_notify handed to pgm_sendto in this step
RdataEmitted ==
    /\ Len(ra_wire') = Len(ra_wire) + 1
    /\ ra_wire'[Len(ra_wire')].type = "RDATA"
    /\ ~ra_wire'[Len(ra_wire')].parity

C38_SelectiveRepairDefined ==
    [][SelectiveHeadTaken => (~crashed' /\ RdataEmitted /\ txw'.rq = Tail(txw.rq))]_vars

(***************************************************************************)
(* C39: the option walk of on_nak and on_nnak terminates for every packet  *)
(* with OPT_PRESENT set and a well-formed OPT_LENGTH: whatever option      *)
(* headers follow, also an option of opt_length 0 and options without      *)
(* OPT_END, the loop ends after finitely many turns.                       *)
(* Violated: at an option of opt_length 0 that is neither OPT_NAK_LIST nor *)
(* marked OPT_END the pointer no longer moves and the loop never ends;     *)
(* without OPT_END the loop reads on beyond the packet.                    *)
(***************************************************************************)
InOptionWalk == recv.pc = "walk"

C39_OptionWalkTerminates == InOptionWalk ~> (~InOptionWalk /\ ~crashed)

(***************************************************************************)
(* C40: every entry pushed onto the retransmit queue, by a NAK or by       *)
(* proactive parity scheduling, is eventually sent as RDATA and removed,   *)
(* given that the repair consumer runs once per pending notification and   *)
(* the producer completes its sends: the events pending in rdata_notify    *)
(* are never fewer than the entries in the queue, and a queue that holds   *)
(* entries becomes empty again.                                            *)
(* Violated: an entry whose pgm_notify_send failed has no event and stays  *)
(* in the queue; so does every entry behind a repair that stops the        *)
(* consumer (C24, C38).                                                    *)
(***************************************************************************)
\* an event is pending for every entry of the retransmit queue
NotifiedForEveryEntry == ~crashed => rdata_notify >= Len(txw.rq)

C40_EntriesServed ==
    /\ []NotifiedForEveryEntry
    /\ (txw.rq # << >>) ~> (txw.rq = << >>)
=============================================================================
